---------------------------- MODULE Spec2Model ----------------------------
(***************************************************************************)
(* Model of the CoinGecko ingestion pipeline (source/ingestion.py,         *)
(* source/duckdb_store.py, source/coingecko_api.py).                       *)
(*                                                                         *)
(* The persisted store is the four tables of DuckDBStore; the volatile     *)
(* state is the position of IngestionOrchestrator.run() and its locals.    *)
(* Every store statement outside a transaction is auto-committed, so a     *)
(* crash may fall between any two of them; the body of                     *)
(* `with store.transaction()` is one atomic step.                          *)
(*                                                                         *)
(* Columns and fields that no decision of the program reads are left out:  *)
(* symbol, name, first_seen_ts, last_updated_ts, last_query_ts,            *)
(* market_cap_usd, volume_usd, ingested_at.                                *)
(***************************************************************************)
EXTENDS Bags, FiniteSets, Integers, Sequences, TLC

(***************************************************************************)
(* Bounds of the model.                                                    *)
(***************************************************************************)
\* Unix time of the first state.
StartTime == 1700000000
\* One step of the wall clock, in seconds.
TickSeconds == 3600
\* The wall clock advances at most this many steps.
MaxTicks == 2
\* Longest market_chart payload (number of price entries).
MaxBatch == 2
\* Number of INSERT statements executed in the store-level specification.
MaxInserts == 4

(***************************************************************************)
(* Program constants.                                                      *)
(***************************************************************************)
DEFAULT_BACKFILL_DAYS == 729
UPDATE_THRESHOLD_SECONDS == 3600

RUN_STATUS_IDLE == "idle"
RUN_STATUS_RUNNING == "running"
RUN_STATUS_RATE_LIMITED == "rate_limited"
RUN_STATUS_ERROR == "error"

\* SQL NULL / Python None in an integer column or field (timestamps and
\* ranks of the model are all positive).
NULL == 0 - 1
\* Python None for current_endpoint.
NoEndpoint == "None"

Assets == {"bitcoin", "ethereum"}

Max(S) == CHOOSE x \in S : \A y \in S : y <= x
Min(S) == CHOOSE x \in S : \A y \in S : x <= y
Range(s) == {s[k] : k \in 1..Len(s)}

(***************************************************************************)
(* Inputs from the price source.                                           *)
(***************************************************************************)
BackfillSeconds == DEFAULT_BACKFILL_DAYS * 24 * 3600

\* The largest value of the wall clock.
EndTime == StartTime + MaxTicks * TickSeconds

\* Timestamps a market_chart payload may carry: an old one, which is outside
\* the one-hour tolerance of the backfill horizon until the clock reaches
\* EndTime and exactly on its edge then, and two recent ones (the second
\* lies in the future at StartTime).
Timestamps ==
    { EndTime - BackfillSeconds + 3600,
      StartTime,
      StartTime + TickSeconds }

DataPoints(prices) ==
    [timestamp_unix : Timestamps, price_usd : prices]

\* Normalised payloads (build_response's data_points), in payload order.
Batches(prices) ==
    UNION { [1..n -> DataPoints(prices)] : n \in 0..MaxBatch }

\* The payloads of the market_chart endpoint: a time series, in time order.
\* (Batches that repeat a timestamp are handed to insert_market_data in the
\* store-level specification.)
ChartPayloads(prices) ==
    { b \in Batches(prices) :
        \A m, n \in 1..Len(b) :
            m < n => b[m].timestamp_unix < b[n].timestamp_unix }

\* Listings the coins/markets endpoint may answer with.
Listings ==
    { << >>,
      << [asset_id |-> "bitcoin", market_cap_rank |-> 1] >>,
      << [asset_id |-> "bitcoin", market_cap_rank |-> 1],
         [asset_id |-> "ethereum", market_cap_rank |-> 2] >>,
      << [asset_id |-> "ethereum", market_cap_rank |-> 1],
         [asset_id |-> "bitcoin", market_cap_rank |-> NULL] >> }

(***************************************************************************)
(* State.                                                                  *)
(***************************************************************************)
VARIABLES
    \* ---- persisted (DuckDBStore tables) ----
    ingestion_state,         \* singleton row: current_endpoint, run_status
    asset_metadata,          \* asset_id -> [market_cap_rank]
    asset_ingestion_state,   \* asset_id -> progress row
    market_data,             \* bag of rows [asset_id, timestamp_unix, price_usd]
    \* ---- environment ----
    now,                     \* int(time.time())
    \* ---- volatile (one call of IngestionOrchestrator.run) ----
    pc,                      \* position inside run()
    assets,                  \* the parsed listing
    i,                       \* loop index of the listing step
    existing_assets,         \* _incremental_run's existing_assets
    assets_to_query,         \* the work queue
    idx,                     \* loop index of the market-chart loop
    current_ts,              \* _run_market_chart_ingestion's current_ts
    processed,
    errors,
    result,                  \* how the last call of run() ended
    mode,                    \* the branch run() took: "initial" / "incremental"
    \* ---- history (read by the properties only) ----
    h_pre,                   \* assets that had a progress row when run() began
    h_in_window,             \* every payload so far lay inside its window
    h_last,                  \* the last fetch cycle of the current run
    h_writes,                \* log of the INSERT statements executed by
                             \* insert_market_data (store-level spec)
    \* ---- environment of the repeated-run specification ----
    remote,                  \* what the price source answers, fixed
    \* ---- persisted (PortfolioStore tables) ----
    positions,               \* asset_id -> [quantity, avg_cost]
    trades,                  \* the rows of the trades table, oldest first
    \* ---- history of the portfolio operations ----
    p_last,                  \* the last call of a PortfolioStore operation
    \* ---- volatile (one call of CoinGeckoAPI.make_request) ----
    client,                  \* position, arguments and locals of the call
    \* ---- persisted (DuckDBStore: the ingestion_state table) ----
    ingestion_state_ids,     \* the ids of its rows; ingestion_state is the
                             \* row with id = 1
    \* ---- the query cursor handed from one CoinGeckoAPI to the next ----
    cursor,                  \* the state dict, and the last call on it
    \* ---- volatile (record_sell_trade of each PortfolioStore instance) ----
    sellers                  \* instance -> position and locals of its call

store_vars == <<ingestion_state, asset_metadata, asset_ingestion_state, market_data>>
run_vars == <<pc, assets, i, existing_assets, assets_to_query, idx, current_ts,
              processed, errors, result, mode>>
hist_vars == <<h_pre, h_in_window, h_last, h_writes>>
portfolio_vars == <<positions, trades, p_last>>
ingestion_vars == <<store_vars, now, run_vars, hist_vars, remote,
                   ingestion_state_ids>>
vars == <<ingestion_vars, portfolio_vars, client, cursor, sellers>>

\* h_last of a run that has not fetched yet.  prior_last is the asset's
\* last_collected_unix_ts before the cycle, min_ts the payload's smallest
\* timestamp (NULL for an empty or missing payload),
\* scope_writes the number of statements executed inside a transaction
\* scope that an error left (0 otherwise), listing_status the HTTP status of the run's
\* coins/markets answer (0 before the answer), start_status the persisted
\* run status that the current call of run() found, request the from and to
\* of the market_chart request of the cycle, window its query_from and
\* query_to, success what the cycle returned, start_orphans whether the
\* current call of run() found an instrument in asset_metadata without a
\* progress row, asset_id the instrument of the cycle.  All but the first
\* five are kept only in the
\* specifications that trace them.
NoFetch ==
    [outcome |-> "none", in_window |-> TRUE, prior_last |-> 0 - 1,
     min_ts |-> 0 - 1, scope_writes |-> 0,
     listing_status |-> 0, start_status |-> "none",
     request |-> [from |-> NULL, to |-> NULL],
     window |-> [from |-> NULL, to |-> NULL], success |-> "none",
     start_orphans |-> FALSE, asset_id |-> "none"]


(***************************************************************************)
(* DuckDBStore: the persistence layer.                                     *)
(***************************************************************************)

\* The mutated update_ingestion_state: a row in run status Error is final.
update_ingestion_state_error_final(row, endpoint, status) ==
    IF row.run_status = RUN_STATUS_ERROR
    THEN row
    ELSE [ current_endpoint |-> IF endpoint # NoEndpoint THEN endpoint
                                ELSE row.current_endpoint,
           run_status       |-> IF status # NoEndpoint THEN status
                                ELSE row.run_status ]

\* The mutated update_ingestion_state: both columns are written, a None
\* argument included.
update_ingestion_state_unguarded(row, endpoint, status) ==
    [ current_endpoint |-> endpoint, run_status |-> status ]

\* update_ingestion_state: only the arguments that are not None are written.
update_ingestion_state(row, endpoint, status) ==
    [ current_endpoint |-> IF endpoint # NoEndpoint THEN endpoint
                           ELSE row.current_endpoint,
      run_status       |-> IF status # NoEndpoint THEN status
                           ELSE row.run_status ]

\* The run statuses of DuckDBStore.
RunStatuses ==
    { RUN_STATUS_IDLE, RUN_STATUS_RUNNING, RUN_STATUS_RATE_LIMITED,
      RUN_STATUS_ERROR }

\* The row _initialize_schema inserts.
IdleRow == [current_endpoint |-> NoEndpoint, run_status |-> RUN_STATUS_IDLE]

\* The mutated _initialize_schema: the INSERT has no WHERE NOT EXISTS and
\* takes the next free id.
initialize_schema_insert_always(ids, row) ==
    [ ids |-> ids \cup {Max(ids \cup {0}) + 1}, row |-> row ]

\* _initialize_schema on the ingestion_state table: CREATE TABLE IF NOT
\* EXISTS, then INSERT (1, 'idle') WHERE NOT EXISTS (row with id = 1).
initialize_schema(ids, row) ==
    IF 1 \in ids
    THEN [ ids |-> ids, row |-> row ]
    ELSE [ ids |-> ids \cup {1}, row |-> IdleRow ]

\* is_initial_run: SELECT COUNT(*) FROM asset_metadata = 0.
is_initial_run(meta) == DOMAIN meta = {}

\* One INSERT ... ON CONFLICT (asset_id) DO UPDATE of upsert_asset_metadata.
upsert_asset_metadata_row(meta, asset) ==
    [a \in DOMAIN meta \cup {asset.asset_id} |->
        IF a = asset.asset_id
        THEN [market_cap_rank |-> asset.market_cap_rank]
        ELSE meta[a]]

\* get_all_asset_ids: SELECT asset_id FROM asset_metadata.
get_all_asset_ids(meta) == DOMAIN meta

EmptyProgress ==
    [ last_collected_unix_ts  |-> NULL,
      first_collected_unix_ts |-> NULL,
      is_backfill_complete    |-> FALSE ]

\* The mutated statement: INSERT OR REPLACE, an existing row is reset.
initialize_asset_ingestion_state_replace(ais, asset_id) ==
    [a \in DOMAIN ais \cup {asset_id} |->
        IF a = asset_id THEN EmptyProgress ELSE ais[a]]

\* initialize_asset_ingestion_state: INSERT ... ON CONFLICT (asset_id) DO
\* NOTHING.
initialize_asset_ingestion_state(ais, asset_id) ==
    IF asset_id \in DOMAIN ais
    THEN ais
    ELSE [a \in DOMAIN ais \cup {asset_id} |->
            IF a = asset_id THEN EmptyProgress ELSE ais[a]]

\* get_asset_ingestion_state: the row, or NULL when there is none.
HasProgress(ais, asset_id) == asset_id \in DOMAIN ais

\* The mutated update_asset_progress: the "is not None" guards are dropped,
\* so a None argument overwrites the column.
update_asset_progress_unguarded(ais, asset_id, last_ts, first_ts, complete) ==
    [a \in DOMAIN ais |->
        IF a = asset_id
        THEN [ last_collected_unix_ts  |-> last_ts,
               first_collected_unix_ts |-> first_ts,
               is_backfill_complete    |-> (complete = "True") ]
        ELSE ais[a]]

\* The mutated update_asset_progress: the UPDATE has no WHERE clause and
\* writes every row.
update_asset_progress_all_rows(ais, asset_id, last_ts, first_ts, complete) ==
    [a \in DOMAIN ais |->
        [ last_collected_unix_ts  |->
              IF last_ts # NULL THEN last_ts
              ELSE ais[a].last_collected_unix_ts,
          first_collected_unix_ts |->
              IF first_ts # NULL THEN first_ts
              ELSE ais[a].first_collected_unix_ts,
          is_backfill_complete    |->
              IF complete # "None" THEN (complete = "True")
              ELSE ais[a].is_backfill_complete ]]

\* update_asset_progress: UPDATE ... WHERE asset_id = ?, writing only the
\* arguments that are not None.  `complete` is "True", "False" or "None".
update_asset_progress(ais, asset_id, last_ts, first_ts, complete) ==
    [a \in DOMAIN ais |->
        IF a = asset_id
        THEN [ last_collected_unix_ts  |->
                   IF last_ts # NULL THEN last_ts
                   ELSE ais[a].last_collected_unix_ts,
               first_collected_unix_ts |->
                   IF first_ts # NULL THEN first_ts
                   ELSE ais[a].first_collected_unix_ts,
               is_backfill_complete    |->
                   IF complete # "None" THEN (complete = "True")
                   ELSE ais[a].is_backfill_complete ]
        ELSE ais[a]]

\* The WHERE clause of get_assets_to_query over the inner join of
\* asset_ingestion_state and asset_metadata.
NeedsQuery(meta, ais, ts, threshold_seconds) ==
    { a \in DOMAIN ais \cap DOMAIN meta :
        \/ ais[a].last_collected_unix_ts = NULL
        \/ (ts - ais[a].last_collected_unix_ts) > threshold_seconds }

\* ORDER BY market_cap_rank ASC NULLS LAST.
RankBefore(meta, a, b) ==
    \/ meta[b].market_cap_rank = NULL
    \/ /\ meta[a].market_cap_rank # NULL
       /\ meta[a].market_cap_rank <= meta[b].market_cap_rank

\* The mutated query: no ORDER BY clause, the rows come in any order.
get_assets_to_query_unordered(meta, ais, ts, threshold_seconds) ==
    LET S == NeedsQuery(meta, ais, ts, threshold_seconds)
    IN  { q \in [1..Cardinality(S) -> S] :
            \A m, n \in 1..Cardinality(S) : m # n => q[m] # q[n] }

\* get_assets_to_query: every list the query may return (rows of equal rank
\* come in either order).
get_assets_to_query(meta, ais, ts, threshold_seconds) ==
    LET S == NeedsQuery(meta, ais, ts, threshold_seconds)
    IN  { q \in [1..Cardinality(S) -> S] :
            /\ \A m, n \in 1..Cardinality(S) : m # n => q[m] # q[n]
            /\ \A m, n \in 1..Cardinality(S) :
                  m < n => RankBefore(meta, q[m], q[n]) }

\* Rows of the market_data table with the given composite key.
RowsAt(md, asset_id, ts) ==
    { r \in BagToSet(md) : r.asset_id = asset_id /\ r.timestamp_unix = ts }

MakeRow(asset_id, dp) ==
    [ asset_id       |-> asset_id,
      timestamp_unix |-> dp.timestamp_unix,
      price_usd      |-> dp.price_usd ]

\* The mutated statement: ON CONFLICT (asset_id, timestamp_unix) DO NOTHING.
insert_row_keep_first(md, asset_id, dp) ==
    IF RowsAt(md, asset_id, dp.timestamp_unix) = {}
    THEN md (+) SetToBag({MakeRow(asset_id, dp)})
    ELSE md

\* The mutated statement: a plain INSERT with no ON CONFLICT clause on a
\* table that does not enforce the key.
insert_row_plain(md, asset_id, dp) ==
    md (+) SetToBag({MakeRow(asset_id, dp)})

\* One INSERT ... ON CONFLICT (asset_id, timestamp_unix) DO UPDATE SET ...
\* of insert_market_data.
upsert_market_data_row(md, asset_id, dp) ==
    LET hit == RowsAt(md, asset_id, dp.timestamp_unix)
        n   == BagCardinality([r \in hit |-> md[r]])
        new == MakeRow(asset_id, dp)
    IN  IF hit = {}
        THEN md (+) SetToBag({new})
        ELSE LET keep == BagToSet(md) \ hit
             IN  [r \in keep \cup {new} |-> IF r = new THEN n ELSE md[r]]

\* insert_market_data: the rows of data_points[1..k], upserted in order
\* (k = Len(data_points) for the whole call; a smaller k is the state in
\* which a statement of the loop raised).
RECURSIVE insert_prefix(_, _, _, _)
insert_prefix(md, asset_id, data_points, k) ==
    IF k = 0
    THEN md
    ELSE upsert_market_data_row(
             insert_prefix(md, asset_id, data_points, k - 1),
             asset_id, data_points[k])

insert_market_data(md, asset_id, data_points) ==
    insert_prefix(md, asset_id, data_points, Len(data_points))

\* The mutated transaction(): the except branch does not ROLLBACK, so the
\* statements executed before the error stay.
transaction_no_rollback(before, attempted, raised) ==
    attempted

\* transaction(): COMMIT the body's writes, or ROLLBACK and re-raise.
\* `before` and `attempted` are [market_data, asset_ingestion_state].
transaction(before, attempted, raised) ==
    IF raised THEN before ELSE attempted

\* get_data_point_count, get_max_timestamp, get_min_timestamp.
AssetRows(md, asset_id) == { r \in BagToSet(md) : r.asset_id = asset_id }
get_data_point_count(md, asset_id) ==
    BagCardinality([r \in AssetRows(md, asset_id) |-> md[r]])
StoredTimestamps(md, asset_id) ==
    { r.timestamp_unix : r \in AssetRows(md, asset_id) }

\* get_total_data_points: SELECT COUNT(*) FROM market_data.
get_total_data_points(md) == BagCardinality(md)


(***************************************************************************)
(* IngestionOrchestrator: one fetch cycle.                                 *)
(***************************************************************************)

\* _get_backfill_start_ts at wall-clock time t.
get_backfill_start_ts(t) == t - (DEFAULT_BACKFILL_DAYS * 24 * 3600)

\* The mutated window rule: every request starts at the backfill horizon.
query_from_backfill_only(asset_state, t) ==
    get_backfill_start_ts(t)

\* The window rule of _fetch_asset_market_chart (query_from).
query_from(asset_state, t) ==
    IF asset_state.last_collected_unix_ts = NULL
    THEN get_backfill_start_ts(t)
    ELSE asset_state.last_collected_unix_ts

PayloadTimestamps(data_points) ==
    { data_points[k].timestamp_unix : k \in 1..Len(data_points) }

\* The mutated argument list: first_collected_unix_ts and
\* is_backfill_complete are passed on every fetch.
progress_args_unconditional(asset_state, data_points, t) ==
    LET max_ts == Max(PayloadTimestamps(data_points))
        min_ts == Min(PayloadTimestamps(data_points))
        is_backfill_complete == min_ts <= get_backfill_start_ts(t) + 3600
    IN  [ last_collected_unix_ts  |-> max_ts,
          first_collected_unix_ts |-> min_ts,
          is_backfill_complete    |->
              IF is_backfill_complete THEN "True" ELSE "False" ]

\* The mutated argument list: min and max are exchanged.
progress_args_swapped(asset_state, data_points, t) ==
    LET max_ts == Max(PayloadTimestamps(data_points))
        min_ts == Min(PayloadTimestamps(data_points))
        is_backfill_complete == min_ts <= get_backfill_start_ts(t) + 3600
    IN  [ last_collected_unix_ts  |-> min_ts,
          first_collected_unix_ts |->
              IF asset_state.first_collected_unix_ts = NULL
              THEN max_ts ELSE NULL,
          is_backfill_complete    |->
              IF ~asset_state.is_backfill_complete
              THEN (IF is_backfill_complete THEN "True" ELSE "False")
              ELSE "None" ]

\* The arguments _fetch_asset_market_chart passes to update_asset_progress.
progress_args(asset_state, data_points, t) ==
    LET max_ts == Max(PayloadTimestamps(data_points))
        min_ts == Min(PayloadTimestamps(data_points))
        is_backfill_complete == min_ts <= get_backfill_start_ts(t) + 3600
    IN  [ last_collected_unix_ts  |-> max_ts,
          first_collected_unix_ts |->
              IF asset_state.first_collected_unix_ts = NULL
              THEN min_ts ELSE NULL,
          is_backfill_complete    |->
              IF ~asset_state.is_backfill_complete
              THEN (IF is_backfill_complete THEN "True" ELSE "False")
              ELSE "None" ]

\* What the price source may answer to a market_chart request, as seen
\* after make_request: an exception (network error, unparsable body), a
\* non-200 status, or a 200 with a normalised payload.
MarketChartResponses(prices) ==
    { [kind |-> "exception", status_code |-> 0, data_points |-> << >>],
      [kind |-> "status", status_code |-> 500, data_points |-> << >>] }
    \cup { [kind |-> "ok", status_code |-> 200, data_points |-> b] :
             b \in ChartPayloads(prices) }

\* Where a store error strikes inside the transaction body: nowhere, at the
\* (k+1)-th INSERT of insert_market_data, or at update_asset_progress.
NoFault == [at |-> "none", k |-> 0]
AllFaults == [at : {"none", "update", "insert"}, k : 0..MaxBatch]

StoreFaults(data_points) ==
    { [at |-> "none", k |-> 0], [at |-> "update", k |-> 0] }
    \cup { [at |-> "insert", k |-> k] : k \in 0..(Len(data_points) - 1) }

\* The statements of the transaction body that ran before the fault.
persist_attempt(st, asset_id, asset_state, data_points, t, fault) ==
    LET args == progress_args(asset_state, data_points, t)
    IN  CASE fault.at = "insert" ->
               [ market_data |->
                     insert_prefix(st.market_data, asset_id, data_points, fault.k),
                 asset_ingestion_state |-> st.asset_ingestion_state ]
          [] fault.at = "update" ->
               [ market_data |->
                     insert_market_data(st.market_data, asset_id, data_points),
                 asset_ingestion_state |-> st.asset_ingestion_state ]
          [] OTHER ->
               [ market_data |->
                     insert_market_data(st.market_data, asset_id, data_points),
                 asset_ingestion_state |->
                     update_asset_progress(
                         st.asset_ingestion_state, asset_id,
                         args.last_collected_unix_ts,
                         args.first_collected_unix_ts,
                         args.is_backfill_complete) ]

\* _default_secrets at wall-clock time t: the market_chart parameters.
default_secrets(t) ==
    [ initial_query_from |-> t - (DEFAULT_BACKFILL_DAYS * 24 * 3600),
      query_to |-> t ]

\* _build_secrets_for_range: the default secrets with the window written
\* over them.  self.secrets, the configuration the caller passed to the
\* constructor, is not read.
build_secrets_for_range(q_from, q_to, t) ==
    [ default_secrets(t) EXCEPT !.initial_query_from = q_from,
                                !.query_to = q_to ]

\* The already_fetched entry of the state _fetch_asset_market_chart hands to
\* CoinGeckoAPI: present only when last_collected_unix_ts is truthy.
already_fetched(asset_state, q_from) ==
    IF asset_state.last_collected_unix_ts # NULL
       /\ asset_state.last_collected_unix_ts # 0
    THEN [present |-> TRUE, last_fetched |-> q_from]
    ELSE [present |-> FALSE, last_fetched |-> NULL]

\* CoinGeckoAPI.build_api, market_chart branch: the from and to of the
\* request url.
build_api(fetched, secrets) ==
    [ from |-> IF fetched.present THEN fetched.last_fetched
               ELSE secrets.initial_query_from,
      to |-> secrets.query_to ]

\* No request was issued.
NoRequest == [from |-> NULL, to |-> NULL]

\* The mutated window test: no window is taken for degenerate.
window_never_degenerate(q_from, q_to) == FALSE

\* The "already up to date" test of _fetch_asset_market_chart.
window_is_degenerate(q_from, q_to) == q_from >= q_to

\* The mutated return: a batch without data points is a failure.
EmptyBatchIsFailure == "False"

\* What _fetch_asset_market_chart returns for a batch without data points
\* ("Not an error, just no data").
EmptyBatchResult == "True"

\* The window _fetch_asset_market_chart computes for the instrument
\* (query_from, query_to), NoRequest when the instrument has no progress
\* row.
market_chart_window(ais, asset_id, cur_ts, t) ==
    IF ~HasProgress(ais, asset_id)
    THEN NoRequest
    ELSE [from |-> query_from(ais[asset_id], t), to |-> cur_ts]

\* The from and to of the url _fetch_asset_market_chart requests, NoRequest
\* when it returns before make_request.
market_chart_request(ais, asset_id, cur_ts, t) ==
    LET window == market_chart_window(ais, asset_id, cur_ts, t)
    IN  IF window = NoRequest \/ window_is_degenerate(window.from, window.to)
        THEN NoRequest
        ELSE build_api(already_fetched(ais[asset_id], window.from),
                       build_secrets_for_range(window.from, window.to, t))

\* _fetch_asset_market_chart(asset_id, current_ts) at wall-clock time t,
\* with the source answering resp and the store failing at fault.
\* success is "True", "False" or "raised".
fetch_asset_market_chart(st, asset_id, cur_ts, t, resp, fault) ==
    LET unchanged(outcome, success, in_window) ==
            [ store |-> st, outcome |-> outcome, success |-> success,
              in_window |-> in_window, scope_writes |-> 0 ]
    IN  IF ~HasProgress(st.asset_ingestion_state, asset_id)
        THEN unchanged("no_state", "False", TRUE)
        ELSE
        LET asset_state == st.asset_ingestion_state[asset_id]
            q_from == query_from(asset_state, t)
            q_to == cur_ts
            inside == \A ts \in PayloadTimestamps(resp.data_points) :
                          q_from <= ts /\ ts <= q_to
        IN  IF window_is_degenerate(q_from, q_to)
            THEN unchanged("skipped", "True", TRUE)
            ELSE IF resp.kind = "exception"
            THEN unchanged("exception", "raised", TRUE)
            ELSE IF resp.status_code # 200
            THEN unchanged("status", "False", TRUE)
            ELSE IF resp.data_points = << >>
            THEN unchanged("empty", EmptyBatchResult, TRUE)
            ELSE
            LET attempted == persist_attempt(st, asset_id, asset_state,
                                             resp.data_points, t, fault)
                raised == fault.at # "none"
            IN  [ store |-> transaction(st, attempted, raised),
                  outcome |-> IF raised THEN "store_error" ELSE "persisted",
                  success |-> IF raised THEN "raised" ELSE "True",
                  in_window |-> inside,
                  scope_writes |->
                      CASE fault.at = "insert" -> fault.k
                        [] fault.at = "update" -> Len(resp.data_points)
                        [] OTHER -> 0 ]


(***************************************************************************)
(* IngestionOrchestrator.run(): the steps between two store statements.    *)
(***************************************************************************)

\* The locals of run() when no call is in progress.
RunLocalsCleared ==
    /\ assets' = << >>
    /\ i' = 0
    /\ existing_assets' = {}
    /\ assets_to_query' = << >>
    /\ idx' = 0
    /\ current_ts' = 0
    /\ processed' = 0
    /\ errors' = 0
    /\ mode' = "none"

\* run(): update_ingestion_state(run_status=RUNNING), then is_initial_run().
\* `traced` says whether the history keeps the run status found.
RunBegin(traced) ==
    /\ pc = "idle"
    /\ ingestion_state' =
           update_ingestion_state(ingestion_state, NoEndpoint, RUN_STATUS_RUNNING)
    /\ mode' = IF is_initial_run(asset_metadata) THEN "initial" ELSE "incremental"
    /\ pc' = "fetch_markets"
    /\ result' = "running"
    /\ h_pre' = DOMAIN asset_ingestion_state
    /\ h_last' = IF traced
                 THEN [NoFetch EXCEPT
                          !.start_status = ingestion_state.run_status,
                          !.start_orphans =
                              (DOMAIN asset_metadata
                                   \ DOMAIN asset_ingestion_state # {})]
                 ELSE NoFetch
    /\ UNCHANGED <<remote, portfolio_vars, client, cursor, sellers,
                 ingestion_state_ids>>
    /\ UNCHANGED <<asset_metadata, asset_ingestion_state, market_data, now,
                   assets, i, existing_assets, assets_to_query, idx, current_ts,
                   processed, errors, h_in_window, h_writes>>

\* The mutated except branch: the exception is logged and swallowed, run()
\* returns as if the run had gone through.
RunRaisesSwallowed(row) ==
    /\ ingestion_state' = update_ingestion_state(row, NoEndpoint, RUN_STATUS_IDLE)
    /\ pc' = "idle"
    /\ result' = "returned"
    /\ RunLocalsCleared
    /\ h_pre' = {}
    /\ h_last' = NoFetch

\* The except branch of run(): update_ingestion_state(run_status=ERROR); raise.
RunRaises(row) ==
    /\ ingestion_state' = update_ingestion_state(row, NoEndpoint, RUN_STATUS_ERROR)
    /\ pc' = "idle"
    /\ result' = "raised"
    /\ RunLocalsCleared
    /\ h_pre' = {}
    /\ h_last' = NoFetch

\* _fetch_coin_markets: the request raises (network error, unparsable body).
FetchCoinMarketsRaises ==
    /\ pc = "fetch_markets"
    /\ RunRaises(update_ingestion_state(ingestion_state, "coinmarkets", NoEndpoint))
    /\ UNCHANGED <<remote, portfolio_vars, client, cursor, sellers,
                 ingestion_state_ids>>
    /\ UNCHANGED <<asset_metadata, asset_ingestion_state, market_data, now,
                   h_in_window, h_writes>>

\* _fetch_coin_markets: the request returns; a non-200 answer parses to None
\* and the function returns [].  Then the `if not assets` / `if
\* current_top_assets` test of _initial_run / _incremental_run.  `traced`
\* says whether the history keeps the status of the answer, `answers` is
\* what the source may answer.
FetchCoinMarketsReturns(traced, answers) ==
    /\ pc = "fetch_markets"
    /\ \E answer \in answers :
          /\ assets' = IF answer.status_code = 200 THEN answer.listing ELSE << >>
          /\ h_last' = IF traced
                       THEN [h_last EXCEPT !.listing_status = answer.status_code]
                       ELSE h_last
    /\ ingestion_state' =
           update_ingestion_state(ingestion_state, "coinmarkets", NoEndpoint)
    /\ IF assets' = << >>
       THEN pc' = "queue" /\ i' = 0
       ELSE pc' = "upsert" /\ i' = 1
    /\ UNCHANGED <<remote, portfolio_vars, client, cursor, sellers,
                 ingestion_state_ids>>
    /\ UNCHANGED <<asset_metadata, asset_ingestion_state, market_data, now,
                   existing_assets, assets_to_query, idx, current_ts,
                   processed, errors, result, mode, h_pre, h_in_window,
                   h_writes>>

\* upsert_asset_metadata: one statement of its loop; after the last one,
\* _incremental_run reads existing_assets = set(get_all_asset_ids()).
UpsertAssetMetadata ==
    /\ pc = "upsert"
    /\ asset_metadata' = upsert_asset_metadata_row(asset_metadata, assets[i])
    /\ IF i < Len(assets)
       THEN /\ i' = i + 1
            /\ UNCHANGED <<pc, existing_assets>>
       ELSE /\ i' = 1
            /\ pc' = "init_state"
            /\ existing_assets' =
                   IF mode = "incremental"
                   THEN get_all_asset_ids(asset_metadata')
                   ELSE {}
    /\ UNCHANGED <<remote, portfolio_vars, client, cursor, sellers,
                 ingestion_state_ids>>
    /\ UNCHANGED <<ingestion_state, asset_ingestion_state, market_data, now,
                   assets, assets_to_query, idx, current_ts, processed, errors,
                   result, mode, hist_vars>>

\* One iteration of the initialisation loop of _initial_run (always
\* initialise) or _incremental_run (only if not in existing_assets).
InitializeIngestionState ==
    /\ pc = "init_state"
    /\ LET asset_id == assets[i].asset_id
       IN  asset_ingestion_state' =
               IF mode = "initial" \/ asset_id \notin existing_assets
               THEN initialize_asset_ingestion_state(asset_ingestion_state, asset_id)
               ELSE asset_ingestion_state
    /\ IF i < Len(assets)
       THEN i' = i + 1 /\ pc' = pc
       ELSE i' = 0 /\ pc' = "queue"
    /\ UNCHANGED <<remote, portfolio_vars, client, cursor, sellers,
                 ingestion_state_ids>>
    /\ UNCHANGED <<ingestion_state, asset_metadata, market_data, now,
                   assets, existing_assets, assets_to_query, idx, current_ts,
                   processed, errors, result, mode, hist_vars>>

\* A store statement of the listing step or of the queue computation raises
\* (connectivity, constraint violation): the statement has no effect.
ListingStoreError ==
    /\ pc \in {"upsert", "init_state", "queue"}
    /\ RunRaises(ingestion_state)
    /\ UNCHANGED <<remote, portfolio_vars, client, cursor, sellers,
                 ingestion_state_ids>>
    /\ UNCHANGED <<asset_metadata, asset_ingestion_state, market_data, now,
                   h_in_window, h_writes>>

\* _run_market_chart_ingestion up to the loop: current_ts, the work queue,
\* and update_ingestion_state(current_endpoint="marketchart").
ComputeQueue ==
    /\ pc = "queue"
    /\ current_ts' = now
    /\ \E q \in get_assets_to_query(asset_metadata, asset_ingestion_state,
                                    now, UPDATE_THRESHOLD_SECONDS) :
          assets_to_query' = q
    /\ IF assets_to_query' = << >>
       THEN /\ pc' = "finish"
            /\ idx' = 0
            /\ UNCHANGED ingestion_state
       ELSE /\ pc' = "chart"
            /\ idx' = 1
            /\ ingestion_state' =
                   update_ingestion_state(ingestion_state, "marketchart", NoEndpoint)
    /\ processed' = 0
    /\ errors' = 0
    /\ assets' = << >>
    /\ existing_assets' = {}
    /\ h_pre' = {}
    /\ UNCHANGED <<remote, portfolio_vars, client, cursor, sellers,
                 ingestion_state_ids>>
    /\ UNCHANGED <<asset_metadata, asset_ingestion_state, market_data, now,
                   i, result, mode, h_in_window, h_last, h_writes>>

\* The mutated loop: a failed fetch cycle ends the loop (break, or an
\* exception that is not caught per asset).
loop_next_stop_on_failure(success, k, n) ==
    IF success = "True" /\ k < n THEN "chart" ELSE "finish"

\* Where the loop of _run_market_chart_ingestion stands after the k-th of n
\* assets: `continue` after a failure, the next asset after a success.
loop_next(success, k, n) ==
    IF k < n THEN "chart" ELSE "finish"

\* One iteration of the loop of _run_market_chart_ingestion: the fetch
\* cycle of assets_to_query[idx] and the success / error accounting, with
\* the source answering one of `responses` and the store failing at one of
\* `faults`.
FetchAsset(responses, faults, traced) ==
    /\ pc = "chart"
    /\ \E resp \in responses :
       \E fault \in StoreFaults(resp.data_points) \cap faults :
          LET asset_id == assets_to_query[idx]
              st == [ market_data |-> market_data,
                      asset_ingestion_state |-> asset_ingestion_state ]
          IN  \E r \in { fetch_asset_market_chart(st, asset_id, current_ts,
                                                   now, resp, fault) } :
              /\ market_data' = r.store.market_data
              /\ asset_ingestion_state' = r.store.asset_ingestion_state
              /\ processed' = IF r.success = "True" THEN processed + 1 ELSE processed
              /\ errors' = IF r.success = "True" THEN errors ELSE errors + 1
              /\ h_last' =
                     [ outcome |-> r.outcome,
                       in_window |-> r.in_window,
                       prior_last |->
                           IF HasProgress(asset_ingestion_state, asset_id)
                           THEN asset_ingestion_state[asset_id].last_collected_unix_ts
                           ELSE NULL,
                       min_ts |->
                           IF resp.data_points = << >> THEN NULL
                           ELSE Min(PayloadTimestamps(resp.data_points)),
                       scope_writes |-> r.scope_writes,
                       listing_status |-> h_last.listing_status,
                       start_status |-> h_last.start_status,
                       request |->
                           IF traced
                           THEN market_chart_request(asset_ingestion_state,
                                    asset_id, current_ts, now)
                           ELSE h_last.request,
                       window |->
                           IF traced
                           THEN market_chart_window(asset_ingestion_state,
                                    asset_id, current_ts, now)
                           ELSE h_last.window,
                       success |-> IF traced THEN r.success
                                   ELSE h_last.success,
                       start_orphans |-> h_last.start_orphans,
                       asset_id |-> IF traced THEN asset_id
                                    ELSE h_last.asset_id ]
              /\ h_in_window' = (h_in_window /\ r.in_window)
              /\ pc' = loop_next(r.success, idx, Len(assets_to_query))
    /\ idx' = idx + 1
    /\ UNCHANGED <<remote, portfolio_vars, client, cursor, sellers,
                 ingestion_state_ids>>
    /\ UNCHANGED <<ingestion_state, asset_metadata, now, assets, i,
                   existing_assets, assets_to_query, current_ts, result, mode,
                   h_pre, h_writes>>

\* run(): update_ingestion_state(run_status=IDLE); return the summary.
RunFinish ==
    /\ pc = "finish"
    /\ ingestion_state' =
           update_ingestion_state(ingestion_state, NoEndpoint, RUN_STATUS_IDLE)
    /\ pc' = "idle"
    /\ result' = "returned"
    /\ RunLocalsCleared
    /\ h_pre' = {}
    /\ h_last' = NoFetch
    /\ UNCHANGED <<remote, portfolio_vars, client, cursor, sellers,
                 ingestion_state_ids>>
    /\ UNCHANGED <<asset_metadata, asset_ingestion_state, market_data, now,
                   h_in_window, h_writes>>

\* The process dies between two store statements: the locals are lost, the
\* store keeps what was committed.
Crash ==
    /\ pc # "idle"
    /\ pc' = "idle"
    /\ result' = "crashed"
    /\ RunLocalsCleared
    /\ h_pre' = {}
    /\ h_last' = NoFetch
    /\ UNCHANGED <<remote, portfolio_vars, client, cursor, sellers,
                 ingestion_state_ids>>
    /\ UNCHANGED <<store_vars, now, h_in_window, h_writes>>

\* The wall clock advances.  Only the market-chart loop reads the clock, so
\* a step of the clock during the listing step is the same step taken
\* before run() began.
Tick ==
    /\ pc \in {"idle", "chart"}
    /\ now < EndTime
    /\ now' = now + TickSeconds
    /\ UNCHANGED <<remote, portfolio_vars, client, cursor, sellers,
                 ingestion_state_ids>>
    /\ UNCHANGED <<store_vars, run_vars, hist_vars>>

\* The price source of the specifications that do not fix it.
NoRemote == [listing |-> << >>, charts |-> << >>]

\* The tables after PortfolioStore.__init__ on a new database.
NoCall ==
    [op |-> "none", asset_id |-> "none", quantity |-> 0, price_usd |-> 0,
     outcome |-> "none"]
PortfolioInit ==
    /\ positions = << >>
    /\ trades = << >>
    /\ p_last = NoCall

\* The store after DuckDBStore.__init__ on a new database, and no call of
\* run() in progress.
IngestionInit ==
    /\ ingestion_state =
           [current_endpoint |-> NoEndpoint, run_status |-> RUN_STATUS_IDLE]
    /\ asset_metadata = << >>
    /\ asset_ingestion_state = << >>
    /\ market_data = EmptyBag
    /\ now = StartTime
    /\ pc = "idle"
    /\ assets = << >>
    /\ i = 0
    /\ existing_assets = {}
    /\ assets_to_query = << >>
    /\ idx = 0
    /\ current_ts = 0
    /\ processed = 0
    /\ errors = 0
    /\ result = "none"
    /\ mode = "none"
    /\ h_pre = {}
    /\ h_in_window = TRUE
    /\ h_last = NoFetch
    /\ h_writes = << >>

(***************************************************************************)
(* CoinGeckoAPI.make_request.                                              *)
(***************************************************************************)

\* The default of make_request's max_retries.
DEFAULT_MAX_RETRIES == 5
\* Largest max_retries a caller passes.
MaxRetries == 5
\* base_delay, in seconds.
BASE_DELAY == 60

\* The status codes make_request tells apart, and one it does not know.
StatusCodes == {200, 400, 401, 403, 429, 500, 503, 404}

\* What requests.get may do: answer with a status code, or raise
\* (connection error, timeout).
GetOutcomes ==
    { [kind |-> "response", status_code |-> c] : c \in StatusCodes }
    \cup { [kind |-> "exception", status_code |-> 0] }

\* The local `response` before the first assignment.
Unbound == 0

\* No call of make_request has been made.
NoRequestCall ==
    [ pc |-> "idle", max_retries |-> 0, attempt |-> 0, requests |-> 0,
      response |-> Unbound, slept |-> 0, error |-> "none" ]

ClientInit == client = NoRequestCall

\* make_request(endpoint, max_retries): the call begins, nothing requested
\* yet.
MakeRequestBegin(retries) ==
    /\ client.pc # "loop"
    /\ \E max_retries \in retries :
          client' = [ NoRequestCall EXCEPT !.pc = "loop",
                                          !.max_retries = max_retries ]
    /\ UNCHANGED <<ingestion_vars, portfolio_vars, cursor, sellers>>

\* One iteration of `for attempt in range(max_retries)`: requests.get, then
\* the status dispatch.  A 429 sleeps base_delay * 2 ** attempt and goes on
\* to the next iteration, every other status returns the response, an
\* exception of requests.get leaves make_request.
MakeRequestGet(outcomes) ==
    /\ client.pc = "loop"
    /\ client.attempt < client.max_retries
    /\ \E outcome \in outcomes :
          client' =
              CASE outcome.kind = "exception" ->
                     [ client EXCEPT !.pc = "raised",
                                     !.requests = @ + 1,
                                     !.error = "RequestException" ]
                [] outcome.status_code = 429 ->
                     [ client EXCEPT !.requests = @ + 1,
                                     !.response = 429,
                                     !.slept = @ + BASE_DELAY * (2 ^ client.attempt),
                                     !.attempt = @ + 1 ]
                [] OTHER ->
                     [ client EXCEPT !.pc = "returned",
                                     !.requests = @ + 1,
                                     !.response = outcome.status_code ]
    /\ UNCHANGED <<ingestion_vars, portfolio_vars, cursor, sellers>>

\* The statement after the loop: `return response`, which raises
\* UnboundLocalError when the loop body never ran.
MakeRequestExhausted ==
    /\ client.pc = "loop"
    /\ client.attempt >= client.max_retries
    /\ client' =
           IF client.response = Unbound
           THEN [ client EXCEPT !.pc = "raised", !.error = "UnboundLocalError" ]
           ELSE [ client EXCEPT !.pc = "returned" ]
    /\ UNCHANGED <<ingestion_vars, portfolio_vars, cursor, sellers>>

(***************************************************************************)
(* CoinGeckoAPI: the query cursor (the state dict) and update_state.       *)
(***************************************************************************)
API_KEY_COIN_MARKETS == "coinmarkets"
API_KEY_MARKET_CHART == "marketchart"

\* The instrument ids a listing may name.
CursorAssets == Assets \cup {"solana"}

\* The listings of build_response: every sequence of distinct instruments,
\* the empty one included.
CursorListings ==
    { l \in UNION { [1..n -> CursorAssets] : n \in 0..Cardinality(CursorAssets) } :
        \A j, k \in 1..Len(l) : j # k => l[j] # l[k] }

\* The data_points of a market_chart answer: none, one, or two.
CursorBatches ==
    { << >>,
      << [timestamp_unix |-> StartTime] >>,
      << [timestamp_unix |-> StartTime],
         [timestamp_unix |-> StartTime + TickSeconds] >> }

\* The state dict of a driver that has not called the source yet: api None,
\* to_query_asset_id None (has_queue FALSE), nothing fetched.
InitialState ==
    [ api |-> NoEndpoint, has_queue |-> FALSE, to_query_asset_id |-> << >>,
      already_fetched |-> << >> ]

\* parsed_response None: build_response of a status other than 200.
NoResponse ==
    [ type |-> "None", assets |-> << >>, asset_id |-> "none",
      data_points |-> << >> ]

\* build_response of a 200 answer, by the endpoint build_api chose.
coinmarkets_response(listing) ==
    [ type |-> API_KEY_COIN_MARKETS,
      assets |-> [k \in 1..Len(listing) |-> [asset_id |-> listing[k]]],
      asset_id |-> "none", data_points |-> << >> ]
marketchart_response(current_asset_id, data_points) ==
    [ type |-> API_KEY_MARKET_CHART, assets |-> << >>,
      asset_id |-> current_asset_id, data_points |-> data_points ]

\* list.remove(x): the first occurrence of x goes, the rest keeps its order.
RECURSIVE list_remove(_, _)
list_remove(s, x) ==
    IF s = << >> THEN << >>
    ELSE IF Head(s) = x THEN Tail(s)
    ELSE <<Head(s)>> \o list_remove(Tail(s), x)

\* The mutated test: the queue is never taken for empty.
queue_never_empty(to_query) == FALSE

\* `if not to_query` of update_state.
queue_is_empty(to_query) == to_query = << >>

\* CoinGeckoAPI.update_state: the state dict after parsed_response.
update_state(state, parsed_response) ==
    IF parsed_response.type = "None" THEN state
    ELSE IF parsed_response.type = API_KEY_COIN_MARKETS
    THEN [ state EXCEPT
             !.api = API_KEY_MARKET_CHART,
             !.has_queue = TRUE,
             !.to_query_asset_id =
                 [k \in 1..Len(parsed_response.assets) |->
                      parsed_response.assets[k].asset_id] ]
    ELSE IF parsed_response.type = API_KEY_MARKET_CHART
    THEN LET asset_id == parsed_response.asset_id
             data_points == parsed_response.data_points
             max_ts == Max({ data_points[k].timestamp_unix :
                                 k \in 1..Len(data_points) })
             fetched ==
                 IF data_points # << >>
                 THEN [ a \in DOMAIN state.already_fetched \cup {asset_id} |->
                          IF a = asset_id THEN max_ts
                          ELSE state.already_fetched[a] ]
                 ELSE state.already_fetched
             to_query ==
                 IF asset_id \in Range(state.to_query_asset_id)
                 THEN list_remove(state.to_query_asset_id, asset_id)
                 ELSE state.to_query_asset_id
         IN  [ state EXCEPT
                 !.already_fetched = fetched,
                 !.to_query_asset_id = to_query,
                 !.api = IF queue_is_empty(to_query) THEN NoEndpoint ELSE @ ]
    ELSE state

\* No call was made on the cursor yet.
NoCursorCall ==
    [ state |-> InitialState, pc |-> "ready", error |-> "none",
      parsed_response |-> [NoResponse EXCEPT !.type = "no call"],
      listed |-> 0, answered |-> 0 ]

CursorInit == cursor = NoCursorCall

\* One call of the driver: CoinGeckoAPI(state, secrets), build_api,
\* make_request, build_response, update_state.  build_api of a cursor in
\* market-chart mode reads to_query_asset_id[0] and raises when the queue is
\* None (TypeError) or empty (IndexError).  listed and answered count the
\* instruments of the last listing and the market_chart responses since.
CursorCall(listings, batches) ==
    /\ cursor.pc = "ready"
    /\ LET state == cursor.state
           api == IF state.api = NoEndpoint THEN API_KEY_COIN_MARKETS
                  ELSE state.api
           responses ==
               IF api = API_KEY_COIN_MARKETS
               THEN { coinmarkets_response(l) : l \in listings }
               ELSE { marketchart_response(state.to_query_asset_id[1], b) :
                          b \in batches }
       IN  IF api = API_KEY_MARKET_CHART
              /\ (~state.has_queue \/ state.to_query_asset_id = << >>)
           THEN cursor' =
                    [ cursor EXCEPT
                        !.pc = "raised",
                        !.error = IF state.has_queue THEN "IndexError"
                                  ELSE "TypeError" ]
           ELSE \E parsed_response \in responses \cup {NoResponse} :
                    cursor' =
                        [ cursor EXCEPT
                            !.state = update_state(state, parsed_response),
                            !.parsed_response = parsed_response,
                            !.listed =
                                IF parsed_response.type = API_KEY_COIN_MARKETS
                                THEN Len(parsed_response.assets) ELSE @,
                            !.answered =
                                IF parsed_response.type = API_KEY_COIN_MARKETS
                                THEN 0
                                ELSE IF parsed_response.type = API_KEY_MARKET_CHART
                                THEN @ + 1 ELSE @ ]
    /\ UNCHANGED <<ingestion_vars, portfolio_vars, client, sellers>>

(***************************************************************************)
(* record_sell_trade of several PortfolioStore instances on one database.  *)
(***************************************************************************)
\* The PortfolioStore instances (one connection each) of the database.
Instances == {"store_a", "store_b"}

\* An instance that is not inside record_sell_trade.
NoSale == [pc |-> "idle"]

SellersInit == sellers = [inst \in Instances |-> NoSale]

Init ==
    /\ IngestionInit
    /\ remote = NoRemote
    /\ PortfolioInit
    /\ ClientInit
    /\ CursorInit
    /\ SellersInit
    /\ ingestion_state_ids = initialize_schema({}, IdleRow).ids

\* Prices of the payloads of a run, and the answers of the market_chart
\* endpoint with them.
RunPrices == {1}
RunResponses == MarketChartResponses(RunPrices)

\* The answers of the coins/markets endpoint, as seen after make_request.
ListingAnswers ==
    { [status_code |-> 200, listing |-> listing] : listing \in Listings }
    \cup { [status_code |-> 500, listing |-> << >>] }

Next ==
    \/ RunBegin(FALSE)
    \/ FetchCoinMarketsRaises
    \/ FetchCoinMarketsReturns(FALSE, ListingAnswers)
    \/ UpsertAssetMetadata
    \/ InitializeIngestionState
    \/ ListingStoreError
    \/ ComputeQueue
    \/ FetchAsset(RunResponses, AllFaults, FALSE)
    \/ RunFinish
    \/ Crash
    \/ Tick

Spec == Init /\ [][Next]_vars

\* The same program with payloads of at most one point, stamped StartTime,
\* and with the history keeping the run status each call of run() found and
\* the HTTP status of its listing answer.
TracedResponses ==
    { r \in RunResponses :
        /\ Len(r.data_points) <= 1
        /\ \A m \in 1..Len(r.data_points) :
               r.data_points[m].timestamp_unix = StartTime }

NextTraced ==
    \/ RunBegin(TRUE)
    \/ FetchCoinMarketsRaises
    \/ FetchCoinMarketsReturns(TRUE, ListingAnswers)
    \/ UpsertAssetMetadata
    \/ InitializeIngestionState
    \/ ListingStoreError
    \/ ComputeQueue
    \/ FetchAsset(TracedResponses, AllFaults, TRUE)
    \/ RunFinish
    \/ Crash
    \/ Tick

SpecTraced == Init /\ [][NextTraced]_vars

\* Runs of the full cycle, one after the other, against a price source that
\* does not change: the listing and each asset's market_chart answer are
\* chosen once, every request is answered, and no store statement fails.
Remotes == [listing : Listings, charts : [Assets -> RunResponses]]

InitRepeat ==
    /\ IngestionInit
    /\ remote \in Remotes
    /\ PortfolioInit
    /\ ClientInit
    /\ CursorInit
    /\ SellersInit
    /\ ingestion_state_ids = initialize_schema({}, IdleRow).ids

NextRepeat ==
    \/ RunBegin(FALSE)
    \/ FetchCoinMarketsReturns(
           FALSE, {[status_code |-> 200, listing |-> remote.listing]})
    \/ UpsertAssetMetadata
    \/ InitializeIngestionState
    \/ ComputeQueue
    \/ FetchAsset({remote.charts[assets_to_query[idx]]}, {NoFault}, FALSE)
    \/ RunFinish
    \/ Tick

SpecRepeat == InitRepeat /\ [][NextRepeat]_vars



(***************************************************************************)
(* Properties of the ingestion run.                                        *)
(***************************************************************************)

\* last_collected_unix_ts of an asset, NULL when it has no progress row.
LastCollected(a) ==
    IF HasProgress(asset_ingestion_state, a)
    THEN asset_ingestion_state[a].last_collected_unix_ts
    ELSE NULL

\* The asset of the last fetch cycle of the current run.
LastAsset == assets_to_query[idx - 1]

\* This step is one iteration of the market-chart loop.
FetchStep == pc = "chart" /\ idx' = idx + 1

\* C1: in an incremental run, once the listing step has finished, every
\* listed instrument that had no progress row when run() began has a progress
\* row with last_collected_ts null, first_collected_ts null and
\* is_backfill_complete false.
C1_NewListedAssetsGetProgress ==
    (pc = "queue" /\ mode = "incremental") =>
        \A k \in 1..Len(assets) :
            LET a == assets[k].asset_id
            IN  a \notin h_pre =>
                    /\ HasProgress(asset_ingestion_state, a)
                    /\ asset_ingestion_state[a] = EmptyProgress

\* The instruments the claimed work queue holds at time ts: tracked, and
\* with no progress row, or never collected, or collected more than
\* threshold seconds ago.
ClaimedQueue(ts, threshold_seconds) ==
    { a \in DOMAIN asset_metadata :
        \/ ~HasProgress(asset_ingestion_state, a)
        \/ LastCollected(a) = NULL
        \/ ts - LastCollected(a) > threshold_seconds }

\* C2: when the listing step has finished, the work queue that
\* get_assets_to_query(now, threshold) returns is exactly the tracked
\* instruments whose progress is missing (no row, or last_collected_ts null)
\* or older than the threshold; an instrument collected at most threshold
\* seconds ago is not in it.
C2_QueueIsMissingOrStale ==
    pc = "queue" =>
        \A q \in get_assets_to_query(asset_metadata, asset_ingestion_state,
                                     now, UPDATE_THRESHOLD_SECONDS) :
            /\ Range(q) = ClaimedQueue(now, UPDATE_THRESHOLD_SECONDS)
            /\ \A a \in DOMAIN asset_metadata :
                  ( /\ LastCollected(a) # NULL
                    /\ now - LastCollected(a) <= UPDATE_THRESHOLD_SECONDS )
                  => a \notin Range(q)

\* C3: as long as every payload lay inside its requested window, in every
\* state (also after a crash) each instrument's progress agrees with its
\* committed rows: last_collected_ts is set iff the instrument has a row,
\* and then it is the largest stored timestamp.
C3_ProgressAgreesWithData ==
    h_in_window =>
        \A a \in Assets :
            /\ (LastCollected(a) # NULL) <=> (StoredTimestamps(market_data, a) # {})
            /\ LastCollected(a) # NULL =>
                   LastCollected(a) = Max(StoredTimestamps(market_data, a))

\* C3 witness: a run crashed after one instrument's batch was committed and
\* before the other instrument was fetched.
C3_Witness ==
    /\ h_in_window
    /\ result = "crashed"
    /\ \E a, b \in DOMAIN asset_ingestion_state :
          /\ Cardinality(StoredTimestamps(market_data, a)) = 2
          /\ LastCollected(b) = NULL

\* C4: a store error while persisting a batch commits nothing of the batch
\* and no progress change, is counted as an error, and the loop goes on
\* with the next instrument (or ends normally after the last one).
C4_StoreErrorRolledBackAndIsolated ==
    [][ (FetchStep /\ h_last'.outcome = "store_error") =>
            /\ market_data' = market_data
            /\ asset_ingestion_state' = asset_ingestion_state
            /\ errors' = errors + 1
            /\ processed' = processed
            /\ assets_to_query' = assets_to_query
            /\ pc' = IF idx < Len(assets_to_query) THEN "chart" ELSE "finish"
            /\ ingestion_state'.run_status = RUN_STATUS_RUNNING ]_vars

\* C4 witness: the first instrument's batch hit a store error and the loop
\* stands at the second instrument.
C4_Witness ==
    /\ pc = "chart"
    /\ idx = 2
    /\ h_last.outcome = "store_error"
    /\ errors = 1
    /\ StoredTimestamps(market_data, LastAsset) = {}

\* last_collected_ts does not decrease in this step.
LastCollectedNonDecreasing ==
    \A a \in DOMAIN asset_ingestion_state :
        asset_ingestion_state[a].last_collected_unix_ts # NULL =>
            asset_ingestion_state'[a].last_collected_unix_ts
                >= asset_ingestion_state[a].last_collected_unix_ts

\* C5 as claimed: no step of any run, whatever the payload, decreases an
\* instrument's last_collected_ts.
C5_LastCollectedNeverDecreases ==
    [][ LastCollectedNonDecreasing ]_vars

\* C5 as amended: a fetch cycle whose payload lies inside the requested
\* window [from, to], and every step that is not a fetch cycle, does not
\* decrease an instrument's last_collected_ts.
C5_LastCollectedMonotoneInWindow ==
    [][ (FetchStep => h_last'.in_window) => LastCollectedNonDecreasing ]_vars

\* C5 witness: an incremental fetch inside its window moved
\* last_collected_ts forward.
C5_Witness ==
    /\ pc \in {"chart", "finish"}
    /\ h_last.outcome = "persisted"
    /\ h_last.in_window
    /\ h_last.prior_last # NULL
    /\ LastCollected(LastAsset) > h_last.prior_last

\* C6: once first_collected_ts is set, no step changes it.
C6_FirstCollectedFrozen ==
    [][ \A a \in DOMAIN asset_ingestion_state :
            asset_ingestion_state[a].first_collected_unix_ts # NULL =>
                asset_ingestion_state'[a].first_collected_unix_ts
                    = asset_ingestion_state[a].first_collected_unix_ts ]_vars

\* C6 witness: a later batch that starts earlier than first_collected_ts was
\* persisted, and first_collected_ts is still the old value.
C6_Witness ==
    /\ pc \in {"chart", "finish"}
    /\ h_last.outcome = "persisted"
    /\ h_last.prior_last # NULL
    /\ h_last.min_ts < asset_ingestion_state[LastAsset].first_collected_unix_ts

\* first_collected_ts <= last_collected_ts wherever both are set.
FirstNotAfterLast ==
    \A a \in DOMAIN asset_ingestion_state :
        ( /\ asset_ingestion_state[a].first_collected_unix_ts # NULL
          /\ asset_ingestion_state[a].last_collected_unix_ts # NULL )
        => asset_ingestion_state[a].first_collected_unix_ts
               <= asset_ingestion_state[a].last_collected_unix_ts

\* C7 as claimed: in every reachable state first_collected_ts <=
\* last_collected_ts for every instrument that has both.
C7_FirstNotAfterLast ==
    FirstNotAfterLast

\* C7 as amended: the same, in every state reached while every payload lay
\* inside its requested window.
C7_FirstNotAfterLastInWindow ==
    h_in_window => FirstNotAfterLast

\* C7 witness: after an incremental fetch inside its window the instrument
\* has first_collected_ts strictly below last_collected_ts.
C7_Witness ==
    /\ h_in_window
    /\ pc \in {"chart", "finish"}
    /\ h_last.outcome = "persisted"
    /\ h_last.prior_last # NULL
    /\ asset_ingestion_state[LastAsset].first_collected_unix_ts
           < asset_ingestion_state[LastAsset].last_collected_unix_ts

\* C8: once is_backfill_complete is true, no step makes it false.
C8_BackfillCompleteMonotone ==
    [][ \A a \in DOMAIN asset_ingestion_state :
            asset_ingestion_state[a].is_backfill_complete =>
                asset_ingestion_state'[a].is_backfill_complete ]_vars

\* C8 witness: a batch that starts more than an hour after the backfill
\* horizon was persisted for an instrument whose backfill was complete, and
\* it still is.
C8_Witness ==
    /\ pc \in {"chart", "finish"}
    /\ h_last.outcome = "persisted"
    /\ h_last.prior_last # NULL
    /\ h_last.min_ts > get_backfill_start_ts(now) + 3600
    /\ asset_ingestion_state[LastAsset].is_backfill_complete


(***************************************************************************)
(* The store on its own: callers of DuckDBStore.insert_market_data.        *)
(***************************************************************************)

\* Prices of the batches handed to insert_market_data.
StorePrices == {1, 2}

\* The number of the next insert_market_data call that executes a statement.
NextCall ==
    IF h_writes = << >> THEN 1 ELSE h_writes[Len(h_writes)].call + 1

\* DuckDBStore.insert_market_data(asset_id, data_points), auto-committed.
\* An empty batch returns before any statement.
InsertMarketData(asset_id, data_points) ==
    /\ pc = "idle"
    /\ Len(h_writes) + Len(data_points) <= MaxInserts
    /\ market_data' = insert_market_data(market_data, asset_id, data_points)
    /\ h_writes' = h_writes \o
           [k \in 1..Len(data_points) |->
               [ call           |-> NextCall,
                 asset_id       |-> asset_id,
                 timestamp_unix |-> data_points[k].timestamp_unix,
                 price_usd      |-> data_points[k].price_usd ]]
    /\ UNCHANGED <<remote, portfolio_vars, client, cursor, sellers,
                 ingestion_state_ids>>
    /\ UNCHANGED <<ingestion_state, asset_metadata, asset_ingestion_state,
                   now, run_vars, h_pre, h_in_window, h_last>>

InitStore == Init

NextStore ==
    \E asset_id \in Assets, n \in 0..MaxBatch :
        /\ Len(h_writes) + n <= MaxInserts
        /\ \E data_points \in [1..n -> DataPoints(StorePrices)] :
              InsertMarketData(asset_id, data_points)

SpecStore == InitStore /\ [][NextStore]_vars


(***************************************************************************)
(* Properties of the market_data table.                                    *)
(***************************************************************************)

\* Positions in the log of the statements that wrote the key.
WritesTo(asset_id, ts) ==
    { k \in 1..Len(h_writes) :
        /\ h_writes[k].asset_id = asset_id
        /\ h_writes[k].timestamp_unix = ts }

\* Positions in the log of the statements of one call.
WritesOfCall(c) == { k \in 1..Len(h_writes) : h_writes[k].call = c }

\* The calls that wrote rows of the instrument.
CallsFor(asset_id) ==
    { h_writes[k].call :
        k \in { n \in 1..Len(h_writes) : h_writes[n].asset_id = asset_id } }

\* Number of rows of market_data with the key.
KeyCount(asset_id, ts) ==
    LET hit == RowsAt(market_data, asset_id, ts)
    IN  BagCardinality([r \in hit |-> market_data[r]])

\* C9: a key that was inserted N >= 1 times, in any batches, has exactly one
\* row, and the row holds the values of the last write; a key that was never
\* inserted has no row.
C9_IdempotentUpsert ==
    \A asset_id \in Assets, ts \in Timestamps :
        LET w == WritesTo(asset_id, ts)
        IN  IF w = {}
            THEN KeyCount(asset_id, ts) = 0
            ELSE /\ KeyCount(asset_id, ts) = 1
                 /\ \A r \in RowsAt(market_data, asset_id, ts) :
                        r.price_usd = h_writes[Max(w)].price_usd

\* C9 witness: one key was written three times, within one batch and again
\* in a later batch, and the last write carried another value than the
\* writes before it.
C9_Witness ==
    \E asset_id \in Assets, ts \in Timestamps :
        LET w == WritesTo(asset_id, ts)
        IN  /\ Cardinality(w) >= 3
            /\ Cardinality({ h_writes[k].call : k \in w }) >= 2
            /\ \A k \in w \ {Max(w)} :
                   h_writes[k].price_usd # h_writes[Max(w)].price_usd
            /\ KeyCount(asset_id, ts) = 1

\* C10: after two batches for one instrument, its row count is the number of
\* distinct timestamps in the union of the batches, and a timestamp present
\* in both batches holds the values of the second batch.
C10_OverlapMerge ==
    \A asset_id \in Assets :
        LET calls  == CallsFor(asset_id)
            first  == WritesOfCall(Min(calls))
            second == WritesOfCall(Max(calls))
            ts_of(K) == { h_writes[k].timestamp_unix : k \in K }
        IN  Cardinality(calls) = 2 =>
              /\ get_data_point_count(market_data, asset_id)
                     = Cardinality(ts_of(first) \cup ts_of(second))
              /\ \A ts \in ts_of(first) \cap ts_of(second) :
                     \A r \in RowsAt(market_data, asset_id, ts) :
                        \E k \in second :
                           /\ h_writes[k].timestamp_unix = ts
                           /\ r.price_usd = h_writes[k].price_usd

\* C10 witness: two batches of two points each for one instrument share one
\* timestamp, with different values, and each has a timestamp of its own;
\* the instrument has three rows.
C10_Witness ==
    \E asset_id \in Assets :
        LET calls  == CallsFor(asset_id)
            first  == WritesOfCall(Min(calls))
            second == WritesOfCall(Max(calls))
            ts_of(K) == { h_writes[k].timestamp_unix : k \in K }
        IN  /\ Cardinality(calls) = 2
            /\ ts_of(first) \ ts_of(second) # {}
            /\ ts_of(second) \ ts_of(first) # {}
            /\ \E m \in first, n \in second :
                   /\ h_writes[m].timestamp_unix = h_writes[n].timestamp_unix
                   /\ h_writes[m].price_usd # h_writes[n].price_usd
            /\ get_data_point_count(market_data, asset_id) = 3


(***************************************************************************)
(* Properties of the transaction scope and of error handling in run().     *)
(***************************************************************************)

\* C11: when the body of a store transaction scope raises, every write made
\* inside the scope is rolled back (all tables are as before the scope) and
\* the error reaches the caller, which counts it; when the body does not
\* raise, the rows of the batch and the progress update are committed
\* together.
C11_TransactionScopeAtomic ==
    [][ FetchStep =>
          /\ h_last'.outcome = "store_error" =>
                /\ store_vars' = store_vars
                /\ errors' = errors + 1
                /\ processed' = processed
          /\ h_last'.outcome = "persisted" =>
                /\ h_last'.min_ts
                       \in StoredTimestamps(market_data', assets_to_query[idx])
                /\ asset_ingestion_state'[assets_to_query[idx]]
                       .last_collected_unix_ts
                       \in StoredTimestamps(market_data', assets_to_query[idx])
                /\ asset_ingestion_state'[assets_to_query[idx]]
                       .last_collected_unix_ts >= h_last'.min_ts ]_vars

\* C11 witness: the scope was left by an error after both INSERTs of a
\* two-point batch had been executed inside it, and the instrument has no
\* row and no progress.
C11_Witness ==
    /\ pc \in {"chart", "finish"}
    /\ h_last.outcome = "store_error"
    /\ h_last.scope_writes = 2
    /\ h_last.prior_last = NULL
    /\ StoredTimestamps(market_data, LastAsset) = {}
    /\ LastCollected(LastAsset) = NULL

\* C12: a failed timeseries fetch (exception, or non-success status) changes
\* no row and no progress, is counted, and the loop goes on with the next
\* instrument without the run status leaving Running; a fetch that succeeds
\* after failures persists its batch, rows persisted before a failure stay,
\* and a run that went through its queue ends with run status Idle.
C12_FetchFailureIsolated ==
    [][ /\ (FetchStep /\ h_last'.outcome \in {"exception", "status"}) =>
              /\ market_data' = market_data
              /\ asset_ingestion_state' = asset_ingestion_state
              /\ errors' = errors + 1
              /\ pc' = IF idx < Len(assets_to_query) THEN "chart" ELSE "finish"
              /\ ingestion_state'.run_status = RUN_STATUS_RUNNING
        /\ (FetchStep /\ errors >= 1 /\ h_last'.outcome = "persisted") =>
              /\ h_last'.min_ts \in
                     StoredTimestamps(market_data', assets_to_query[idx])
              /\ processed' = processed + 1
        /\ (pc = "finish" /\ pc' = "idle" /\ result' = "returned") =>
              ingestion_state'.run_status = RUN_STATUS_IDLE ]_vars

\* C12 witness: in a queue of two, the first instrument's batch was
\* persisted and the second instrument's fetch failed with a non-success
\* status; the loop is over, the first instrument has rows, the second none.
C12_Witness ==
    /\ pc = "finish"
    /\ Len(assets_to_query) = 2
    /\ h_last.outcome = "status"
    /\ processed = 1
    /\ errors = 1
    /\ StoredTimestamps(market_data, assets_to_query[1]) # {}
    /\ StoredTimestamps(market_data, assets_to_query[2]) = {}

\* The position of run() is in the listing step or the work-queue
\* computation.
InListingPhase == pc \in {"fetch_markets", "upsert", "init_state", "queue"}

\* C13: a call of run() that is left from the listing step or the queue
\* computation while the process lives (an exception: these steps have no
\* return) leaves run status Error persisted, and the exception reaches the
\* caller of run().
C13_ListingExceptionPropagates ==
    [][ (InListingPhase /\ pc' = "idle" /\ result' # "crashed") =>
            /\ result' = "raised"
            /\ ingestion_state'.run_status = RUN_STATUS_ERROR ]_vars

\* C13 witness: run() raised after the metadata upsert and before any
\* progress row was written (a store error in the listing step), and the
\* persisted run status is Error.
C13_Witness ==
    /\ pc = "idle"
    /\ result = "raised"
    /\ ingestion_state.run_status = RUN_STATUS_ERROR
    /\ DOMAIN asset_metadata # {}
    /\ DOMAIN asset_ingestion_state = {}

\* C14: a call of run() whose listing request was answered with a
\* non-success HTTP status ends, unless the process dies, with the exception
\* reaching the caller and run status Error persisted, never with a normal
\* return and run status Idle; in initial and in incremental mode.
C14_ListingStatusFailureIsError ==
    [][ ( /\ pc # "idle"
          /\ pc' = "idle"
          /\ result' # "crashed"
          /\ h_last.listing_status \notin {0, 200} ) =>
            /\ result' = "raised"
            /\ ingestion_state'.run_status = RUN_STATUS_ERROR ]_vars

\* The run state in one step of a run: run status is Running at every
\* position inside run() (so before every request, and until the end); the
\* stage is listing from the listing answer to the queue computation and
\* timeseries during the market-chart loop, and the timeseries stage is only
\* ever written over the listing stage; the step by which run() returns
\* writes run status Idle.
RunStateStep ==
    /\ pc # "idle" => ingestion_state.run_status = RUN_STATUS_RUNNING
    /\ pc \in {"upsert", "init_state", "queue"} =>
           ingestion_state.current_endpoint = "coinmarkets"
    /\ pc = "chart" => ingestion_state.current_endpoint = "marketchart"
    /\ ( /\ ingestion_state'.current_endpoint = "marketchart"
          /\ ingestion_state.current_endpoint # "marketchart" ) =>
           /\ ingestion_state.current_endpoint = "coinmarkets"
           /\ ingestion_state.run_status = RUN_STATUS_RUNNING
           /\ ingestion_state'.run_status = RUN_STATUS_RUNNING
    /\ (pc # "idle" /\ result' = "returned") =>
           /\ pc = "finish"
           /\ ingestion_state'.run_status = RUN_STATUS_IDLE

\* C15 as claimed: every run that returns went Running, Running{listing},
\* Running{timeseries}, Idle: the steps are as above and the run that
\* returns has recorded the timeseries stage.
C15_EveryRunRecordsTimeseries ==
    [][ /\ RunStateStep
        /\ (pc # "idle" /\ result' = "returned") =>
               ingestion_state'.current_endpoint = "marketchart" ]_vars

\* C15 as amended: the steps are as above; a run that returns has recorded
\* the timeseries stage if its work queue was not empty, and ends Idle with
\* the listing stage if it was empty.
C15_RunStateSequence ==
    [][ /\ RunStateStep
        /\ (pc # "idle" /\ result' = "returned") =>
               ingestion_state'.current_endpoint =
                   IF assets_to_query # << >> THEN "marketchart"
                   ELSE "coinmarkets" ]_vars

\* C15 witness: a run that fetched and persisted data has returned; the
\* persisted state is Idle with the stage of the market-chart loop.
C15_Witness ==
    /\ pc = "idle"
    /\ result = "returned"
    /\ ingestion_state =
           [current_endpoint |-> "marketchart", run_status |-> RUN_STATUS_IDLE]
    /\ market_data # EmptyBag

\* C16: whatever run status a call of run() finds (Error of a failed run,
\* Running of a crashed one), it writes Running, takes its mode from the
\* metadata table and its work queue from the progress rows joined with the
\* metadata, and the step by which it returns writes Idle.
C16_StaleStatusDoesNotBlock ==
    [][ /\ (pc = "idle" /\ pc' # "idle") =>
              /\ ingestion_state'.run_status = RUN_STATUS_RUNNING
              /\ mode' = IF DOMAIN asset_metadata = {}
                         THEN "initial" ELSE "incremental"
        /\ (pc = "queue" /\ pc' \in {"chart", "finish"}) =>
              /\ Range(assets_to_query') =
                     NeedsQuery(asset_metadata, asset_ingestion_state,
                                now, UPDATE_THRESHOLD_SECONDS)
              /\ Len(assets_to_query') = Cardinality(Range(assets_to_query'))
        /\ (pc # "idle" /\ result' = "returned") =>
              ingestion_state'.run_status = RUN_STATUS_IDLE ]_vars

\* C16 witness: a run that found run status Error has fetched and persisted
\* an instrument's batch and stands before its return.
C16_Witness ==
    /\ pc = "finish"
    /\ h_last.start_status = RUN_STATUS_ERROR
    /\ h_last.listing_status = 200
    /\ h_last.outcome = "persisted"
    /\ processed >= 1
    /\ errors = 0

\* The same for a run that found run status Running, left by a crash.
C16_WitnessAfterCrash ==
    /\ pc = "finish"
    /\ h_last.start_status = RUN_STATUS_RUNNING
    /\ h_last.outcome = "persisted"

\* The number of data points the listed assets' market_chart answers hold.
RemoteTotal ==
    LET listed == { remote.listing[k].asset_id : k \in 1..Len(remote.listing) }
        points(a) == IF a \in listed THEN Len(remote.charts[a].data_points) ELSE 0
    IN  points("bitcoin") + points("ethereum")

\* C17: against a price source that does not change, every run of the full
\* cycle returns with the same total number of persisted data points, the
\* number of points the source holds for the listed assets: the second run
\* ends with the total of the first, whatever it fetched again.
C17_RepeatedRunsSameTotal ==
    (pc = "idle" /\ result = "returned") =>
        get_total_data_points(market_data) = RemoteTotal

\* C17 witness: a second run (the metadata table was not empty when it
\* began) has fetched both listed assets again, three points in all, and
\* stands before its return.
C17_Witness ==
    /\ pc = "finish"
    /\ mode = "incremental"
    /\ Len(remote.listing) = 2
    /\ Len(assets_to_query) = 2
    /\ processed = 2
    /\ RemoteTotal >= 3
    /\ get_total_data_points(market_data) = RemoteTotal


(***************************************************************************)
(* PortfolioStore: the trade ledger and the positions.                     *)
(*                                                                         *)
(* Quantities, prices and fees are whole numbers; an average cost and a    *)
(* realized P&L are exact fractions [num, den] in lowest terms (den > 0),  *)
(* so the rounding of the float arithmetic is not modelled.  The symbol    *)
(* and the timestamps of a row are left out.                               *)
(***************************************************************************)
SIDE_BUY == "BUY"
SIDE_SELL == "SELL"

\* The largest number of rows of the trades table.
MaxTrades == 3

\* The (quantity, price_usd) pairs a caller passes: the valid ones, and
\* pairs with a zero or negative quantity or price.
TradeArgs ==
    ({1, 2} \X {1, 3})
    \cup { <<0, 1>>, <<0 - 1, 1>>, <<1, 0>>, <<1, 0 - 1>>, <<0, 0>> }
TradeFees == {1}

Abs(n) == IF n < 0 THEN 0 - n ELSE n

RECURSIVE GCD(_, _)
GCD(a, b) == IF b = 0 THEN a ELSE GCD(b, a % b)

\* The fraction n/d (d > 0) in lowest terms.
Rat(n, d) ==
    LET g == GCD(Abs(n), d)
    IN  [num |-> n \div g, den |-> d \div g]

\* SQL NULL in a column that holds a fraction.
NullRat == [num |-> 0, den |-> 0]

\* The mutated transaction scope: the error leaves it without ROLLBACK.
portfolio_transaction_no_rollback(before, attempted, raised) == attempted

\* PortfolioStore.transaction(): COMMIT the body's writes, or ROLLBACK and
\* re-raise.  `before` and `attempted` are [positions, trades].
portfolio_transaction(before, attempted, raised) ==
    IF raised THEN before ELSE attempted

\* The mutated validation: the price is not looked at.
validate_trade_quantity_only(quantity, price_usd) ==
    IF quantity <= 0 THEN "invalid_quantity" ELSE "ok"

\* The input validation of record_buy_trade and record_sell_trade.
validate_trade(quantity, price_usd) ==
    IF quantity <= 0 THEN "invalid_quantity"
    ELSE IF price_usd <= 0 THEN "invalid_price"
    ELSE "ok"

\* _get_position_internal(asset_id) is not None.
HasPosition(pos, asset_id) == asset_id \in DOMAIN pos

\* get_position(asset_id): the row as a dictionary, or None.
NoPosition == [quantity |-> 0, avg_cost_basis_usd |-> NullRat]
get_position(pos, asset_id) ==
    IF HasPosition(pos, asset_id) THEN pos[asset_id] ELSE NoPosition

\* The mutated position check of record_sell_trade: only the existence of
\* the position is tested.
check_position_exists_only(pos, asset_id, quantity) ==
    IF ~HasPosition(pos, asset_id) THEN "no_position" ELSE "ok"

\* record_sell_trade: `if position is None` and
\* `if quantity > position.quantity`.
check_position(pos, asset_id, quantity) ==
    IF ~HasPosition(pos, asset_id) THEN "no_position"
    ELSE IF quantity > pos[asset_id].quantity THEN "insufficient"
    ELSE "ok"

\* The outcomes that are a ValueError raised before the transaction.
ValueErrors == {"invalid_quantity", "invalid_price", "no_position", "insufficient"}

\* The mutated _update_position_on_buy: the buy price replaces the average
\* cost of an existing position.
update_position_on_buy_last_price(pos, asset_id, quantity, price_usd) ==
    IF ~HasPosition(pos, asset_id)
    THEN (asset_id :> [quantity |-> quantity,
                       avg_cost_basis_usd |-> Rat(price_usd, 1)]) @@ pos
    ELSE [pos EXCEPT ![asset_id] =
             [quantity |-> @.quantity + quantity,
              avg_cost_basis_usd |-> Rat(price_usd, 1)]]

\* _update_position_on_buy: INSERT a position, or UPDATE quantity and
\* avg_cost_basis_usd of the existing one.
update_position_on_buy(pos, asset_id, quantity, price_usd) ==
    IF ~HasPosition(pos, asset_id)
    THEN (asset_id :> [quantity |-> quantity,
                       avg_cost_basis_usd |-> Rat(price_usd, 1)]) @@ pos
    ELSE
    LET existing == pos[asset_id]
        avg == existing.avg_cost_basis_usd
        \* old_total_cost = existing.quantity * avg.num / avg.den
        new_total_cost_num ==
            existing.quantity * avg.num + quantity * price_usd * avg.den
        new_quantity == existing.quantity + quantity
        new_avg_cost == Rat(new_total_cost_num, avg.den * new_quantity)
    IN  [pos EXCEPT ![asset_id] =
            [quantity |-> new_quantity, avg_cost_basis_usd |-> new_avg_cost]]

\* The mutated _update_position_on_sell: a position sold out keeps its row,
\* with quantity 0.
update_position_on_sell_soft_close(pos, asset_id, quantity) ==
    [pos EXCEPT ![asset_id].quantity = @ - quantity]

\* The mutated _update_position_on_sell: the total cost of the position is
\* kept, so the average cost of what is left rises.
update_position_on_sell_keeps_total_cost(pos, asset_id, quantity) ==
    LET existing == pos[asset_id]
        new_quantity == existing.quantity - quantity
    IN  IF new_quantity <= 0
        THEN [a \in DOMAIN pos \ {asset_id} |-> pos[a]]
        ELSE [pos EXCEPT ![asset_id] =
                 [quantity |-> new_quantity,
                  avg_cost_basis_usd |->
                      Rat(existing.quantity * existing.avg_cost_basis_usd.num,
                          existing.avg_cost_basis_usd.den * new_quantity)]]

\* The mutated _update_position_on_sell: the positions table is not written.
update_position_on_sell_keeps_quantity(pos, asset_id, quantity) == pos

\* _update_position_on_sell: DELETE the position when nothing is left,
\* else UPDATE its quantity.
update_position_on_sell(pos, asset_id, quantity) ==
    LET new_quantity == pos[asset_id].quantity - quantity
    IN  IF new_quantity <= 0
        THEN [a \in DOMAIN pos \ {asset_id} |-> pos[a]]
        ELSE [pos EXCEPT ![asset_id].quantity = new_quantity]

\* The row record_buy_trade / record_sell_trade inserts into trades.
TradeRow(trade_id, asset_id, side, quantity, price_usd, fees_usd, pnl) ==
    [ trade_id |-> trade_id, asset_id |-> asset_id, side |-> side,
      quantity |-> quantity, price_usd |-> price_usd,
      trade_value_usd |-> quantity * price_usd,
      fees_usd |-> fees_usd, realized_pnl_usd |-> pnl ]

\* Where a store error strikes inside the transaction body of a trade:
\* nowhere, at the INSERT into trades, or at the statement on positions.
TradeFaults == {"none", "insert", "position"}

\* The mutated constraint: trade_id is not a key of the table.
trade_id_never_taken(rows, trade_id) == FALSE

\* trades.trade_id VARCHAR PRIMARY KEY: an INSERT of an id that a row
\* carries raises a constraint error.
trade_id_taken(rows, trade_id) ==
    \E k \in 1..Len(rows) : rows[k].trade_id = trade_id

\* record_buy_trade on the tables st = [positions, trades].
record_buy_trade(st, asset_id, quantity, price_usd, fees_usd, trade_id, fault) ==
    LET valid == validate_trade(quantity, price_usd)
    IN  IF valid # "ok"
        THEN [store |-> st, outcome |-> valid]
        ELSE
        LET row == TradeRow(trade_id, asset_id, SIDE_BUY, quantity,
                            price_usd, fees_usd, NullRat)
            duplicate == trade_id_taken(st.trades, trade_id)
            inserted == [st EXCEPT !.trades = Append(@, row)]
            attempted ==
                CASE fault = "insert" \/ duplicate -> st
                  [] fault = "position" -> inserted
                  [] OTHER ->
                       [inserted EXCEPT !.positions =
                           update_position_on_buy(@, asset_id, quantity,
                                                  price_usd)]
        IN  [ store |-> portfolio_transaction(st, attempted,
                                              fault # "none" \/ duplicate),
              outcome |-> IF duplicate THEN "constraint_error"
                          ELSE IF fault = "insert" THEN "store_error"
                          ELSE IF fault = "position" THEN "position_error"
                          ELSE "ok" ]

\* The mutated P&L: the fees are not deducted.
realized_pnl_without_fees(quantity, price_usd, avg, fees_usd) ==
    Rat(quantity * price_usd * avg.den - quantity * avg.num, avg.den)

\* record_sell_trade: cost_basis = quantity * position.avg_cost_basis_usd,
\* proceeds = quantity * price_usd, realized_pnl = proceeds - cost_basis -
\* fees_usd; avg is the fraction position.avg_cost_basis_usd.
realized_pnl(quantity, price_usd, avg, fees_usd) ==
    Rat(quantity * price_usd * avg.den - quantity * avg.num
            - fees_usd * avg.den,
        avg.den)

\* record_sell_trade on the tables st = [positions, trades].
record_sell_trade(st, asset_id, quantity, price_usd, fees_usd, trade_id, fault) ==
    LET valid == validate_trade(quantity, price_usd)
        held == check_position(st.positions, asset_id, quantity)
    IN  IF valid # "ok"
        THEN [store |-> st, outcome |-> valid]
        ELSE IF held # "ok"
        THEN [store |-> st, outcome |-> held]
        ELSE
        LET position == st.positions[asset_id]
            row == TradeRow(trade_id, asset_id, SIDE_SELL, quantity,
                            price_usd, fees_usd,
                            realized_pnl(quantity, price_usd,
                                         position.avg_cost_basis_usd,
                                         fees_usd))
            duplicate == trade_id_taken(st.trades, trade_id)
            inserted == [st EXCEPT !.trades = Append(@, row)]
            attempted ==
                CASE fault = "insert" \/ duplicate -> st
                  [] fault = "position" -> inserted
                  [] OTHER ->
                       [inserted EXCEPT !.positions =
                           update_position_on_sell(@, asset_id, quantity)]
        IN  [ store |-> portfolio_transaction(st, attempted,
                                              fault # "none" \/ duplicate),
              outcome |-> IF duplicate THEN "constraint_error"
                          ELSE IF fault = "insert" THEN "store_error"
                          ELSE IF fault = "position" THEN "position_error"
                          ELSE "ok" ]

\* str(uuid.uuid4()) when it draws an id no row carries.
NewTradeId == Len(trades) + 1

\* str(uuid.uuid4()) when it may draw any id of a small set.
TradeIds == {1, 2, 3}

\* One call of record_buy_trade (op = "buy") or record_sell_trade
\* (op = "sell") for one of asset_ids, with uuid4 drawing one of trade_ids
\* and the store failing at one of faults, and what the history keeps of it.
\* No call is made once the ledger holds MaxTrades rows.
TradeCall(op, asset_ids, trade_ids, faults) ==
    /\ Len(trades) < MaxTrades
    /\ \E asset_id \in asset_ids, args \in TradeArgs, fees_usd \in TradeFees :
       \E trade_id \in trade_ids :
       \E fault \in faults :
       \E r \in { IF op = "buy"
                  THEN record_buy_trade(
                           [positions |-> positions, trades |-> trades],
                           asset_id, args[1], args[2], fees_usd,
                           trade_id, fault)
                  ELSE record_sell_trade(
                           [positions |-> positions, trades |-> trades],
                           asset_id, args[1], args[2], fees_usd,
                           trade_id, fault) } :
          /\ fault # "none" => r.outcome \in {"store_error", "position_error"}
          /\ positions' = r.store.positions
          /\ trades' = r.store.trades
          /\ p_last' = [ op |-> op, asset_id |-> asset_id,
                         quantity |-> args[1], price_usd |-> args[2],
                         outcome |-> r.outcome ]
          /\ UNCHANGED <<ingestion_vars, client, cursor, sellers>>

RecordBuyTrade(asset_ids, trade_ids, faults) ==
    TradeCall("buy", asset_ids, trade_ids, faults)
RecordSellTrade(asset_ids, trade_ids, faults) ==
    TradeCall("sell", asset_ids, trade_ids, faults)

InitPortfolio == Init

NextPortfolio ==
    \/ RecordBuyTrade(Assets, {NewTradeId}, TradeFaults)
    \/ RecordSellTrade(Assets, {NewTradeId}, TradeFaults)

SpecPortfolio == InitPortfolio /\ [][NextPortfolio]_vars

\* The read views.  Each executes SELECT statements only; `result` is what
\* it returns (rows in table order, sums of P&L left out), `store` the
\* tables after it.
ReadViews == { "get_open_positions", "get_position", "get_trade_history",
               "get_realized_pnl_summary", "get_portfolio_summary" }
NoAsset == "none"

\* The mutated views: get_position creates the row it does not find, and
\* the other views are as they are.
read_view_get_or_create(st, view, asset_id) ==
    [ store |->
          IF view = "get_position" /\ asset_id # NoAsset
                /\ ~HasPosition(st.positions, asset_id)
          THEN [st EXCEPT !.positions = (asset_id :> NoPosition) @@ @]
          ELSE st,
      result |-> << >> ]

read_view(st, view, asset_id) ==
    LET count(side) ==
            Cardinality({ k \in 1..Len(st.trades) : st.trades[k].side = side })
        open == { a \in DOMAIN st.positions : st.positions[a].quantity > 0 }
        filtered(r) == asset_id = NoAsset \/ r.asset_id = asset_id
    IN  [ store |-> st,
          result |->
              CASE view = "get_open_positions" ->
                       [a \in open |-> st.positions[a]]
                [] view = "get_position" ->
                       get_position(st.positions, asset_id)
                [] view = "get_trade_history" ->
                       SelectSeq(st.trades, filtered)
                [] view = "get_realized_pnl_summary" ->
                       [ total_trades |-> Len(st.trades),
                         total_buys |-> count(SIDE_BUY),
                         total_sells |-> count(SIDE_SELL) ]
                [] OTHER ->
                       [ total_positions |-> Cardinality(open),
                         total_trades |-> Len(st.trades) ] ]

\* One call of a read view.  get_position takes an asset id,
\* get_trade_history an asset id or None, the others no argument.
ReadView ==
    \E view \in ReadViews :
    \E asset_id \in CASE view = "get_position" -> Assets
                     [] view = "get_trade_history" -> Assets \cup {NoAsset}
                     [] OTHER -> {NoAsset} :
    \E r \in { read_view([positions |-> positions, trades |-> trades],
                         view, asset_id) } :
       /\ positions' = r.store.positions
       /\ trades' = r.store.trades
       /\ p_last' = [ op |-> view, asset_id |-> asset_id, quantity |-> 0,
                      price_usd |-> 0, outcome |-> "ok" ]
       /\ UNCHANGED <<ingestion_vars, client, cursor, sellers>>

\* The trade operations and the read views, in any order.
NextViews ==
    \/ RecordBuyTrade(Assets, {NewTradeId}, {"none"})
    \/ RecordSellTrade(Assets, {NewTradeId}, {"none"})
    \/ ReadView

SpecViews == InitPortfolio /\ [][NextViews]_vars

\* The ledger of one instrument, with store errors inside the transaction
\* and with uuid4 drawing from TradeIds, so that an id may be drawn twice.
NextLedger ==
    \/ RecordBuyTrade({"bitcoin"}, TradeIds, TradeFaults)
    \/ RecordSellTrade({"bitcoin"}, TradeIds, TradeFaults)

SpecLedger == InitPortfolio /\ [][NextLedger]_vars


(***************************************************************************)
(* Properties of record_buy_trade and record_sell_trade.                   *)
(***************************************************************************)

\* C18: a record_sell_trade for an instrument without a position, or of
\* more than the position holds, ends in a ValueError and leaves the
\* positions table and the trades table as they were.
C18_SellWithoutHoldingRejected ==
    [][ ( /\ p_last'.op = "sell"
          /\ \/ ~HasPosition(positions, p_last'.asset_id)
             \/ p_last'.quantity > positions[p_last'.asset_id].quantity )
        => /\ p_last'.outcome \in ValueErrors
           /\ positions' = positions
           /\ trades' = trades ]_vars

\* C18 witness: a sell of more than the position holds was rejected; the
\* position and the trade that opened it are there.
C18_Witness ==
    /\ p_last.op = "sell"
    /\ p_last.outcome = "insufficient"
    /\ HasPosition(positions, p_last.asset_id)
    /\ positions[p_last.asset_id].quantity < p_last.quantity
    /\ trades # << >>

\* The other case of C18: no position of that instrument, another is held.
C18_WitnessNoPosition ==
    /\ p_last.op = "sell"
    /\ p_last.outcome = "no_position"
    /\ ~HasPosition(positions, p_last.asset_id)
    /\ positions # << >>

\* C19: a record_buy_trade or record_sell_trade with a quantity <= 0 or a
\* price <= 0 ends in a ValueError of the input validation and writes
\* nothing: no trade row, no change of any position.
C19_NonPositiveInputRejected ==
    [][ ( /\ p_last'.op \in {"buy", "sell"}
          /\ (p_last'.quantity <= 0 \/ p_last'.price_usd <= 0) )
        => /\ p_last'.outcome \in {"invalid_quantity", "invalid_price"}
           /\ positions' = positions
           /\ trades' = trades ]_vars

\* C19 witness: a sell at a price <= 0 was rejected although the position
\* holds the quantity.
C19_Witness ==
    /\ p_last.op = "sell"
    /\ p_last.quantity > 0
    /\ p_last.price_usd <= 0
    /\ p_last.outcome = "invalid_price"
    /\ HasPosition(positions, p_last.asset_id)
    /\ positions[p_last.asset_id].quantity >= p_last.quantity

\* The same for a buy with a quantity <= 0.
C19_WitnessBuy ==
    /\ p_last.op = "buy"
    /\ p_last.quantity <= 0
    /\ p_last.outcome = "invalid_quantity"
    /\ trades # << >>

\* C20: after a successful record_buy_trade(qty, price) the position holds
\* qty at an average cost of price if there was none, and else
\* qty_old + qty at (qty_old*avg_cost_old + qty*price) / (qty_old + qty).
C20_BuyAveragesCost ==
    [][ (p_last'.op = "buy" /\ p_last'.outcome = "ok") =>
        LET a == p_last'.asset_id
            qty == p_last'.quantity
            price == p_last'.price_usd
        IN  /\ HasPosition(positions', a)
            /\ positions'[a].avg_cost_basis_usd.den > 0
            /\ IF ~HasPosition(positions, a)
               THEN /\ positions'[a].quantity = qty
                    /\ positions'[a].avg_cost_basis_usd.num =
                           price * positions'[a].avg_cost_basis_usd.den
               ELSE LET qty_old == positions[a].quantity
                        avg_old == positions[a].avg_cost_basis_usd
                        avg_new == positions'[a].avg_cost_basis_usd
                    IN  /\ positions'[a].quantity = qty_old + qty
                        /\ avg_new.num * (avg_old.den * (qty_old + qty)) =
                               avg_new.den * (qty_old * avg_old.num
                                              + qty * price * avg_old.den)
    ]_vars

\* C20 witness: a buy has added to a position bought at another price; it
\* holds 3 at an average cost of 7/3.
C20_Witness ==
    /\ p_last.op = "buy"
    /\ p_last.outcome = "ok"
    /\ HasPosition(positions, p_last.asset_id)
    /\ positions[p_last.asset_id].quantity = 3
    /\ positions[p_last.asset_id].avg_cost_basis_usd = [num |-> 7, den |-> 3]
    /\ Len(trades) = 2

\* C21: a successful record_sell_trade of less than the held quantity
\* leaves a position of the held quantity minus the sold one, at the
\* average cost it had.
C21_PartialSellKeepsAverageCost ==
    [][ ( /\ p_last'.op = "sell"
          /\ p_last'.outcome = "ok"
          /\ p_last'.quantity < positions[p_last'.asset_id].quantity )
        => LET a == p_last'.asset_id
           IN  /\ HasPosition(positions', a)
               /\ positions'[a].quantity =
                      positions[a].quantity - p_last'.quantity
               /\ positions'[a].avg_cost_basis_usd =
                      positions[a].avg_cost_basis_usd
               /\ \A b \in DOMAIN positions \ {a} :
                      HasPosition(positions', b) /\ positions'[b] = positions[b]
    ]_vars

\* C21 witness: 1 of a position of 3 at 7/3 was sold; 2 at 7/3 are left.
C21_Witness ==
    /\ p_last.op = "sell"
    /\ p_last.outcome = "ok"
    /\ p_last.quantity = 1
    /\ HasPosition(positions, p_last.asset_id)
    /\ positions[p_last.asset_id] =
           [quantity |-> 2, avg_cost_basis_usd |-> [num |-> 7, den |-> 3]]

\* C22: the row a successful record_sell_trade adds carries
\* realized P&L = qty*price - qty*avg_cost - fees, with the average cost the
\* position had before the sell; every BUY row carries a NULL realized P&L
\* and every SELL row a value.
C22_RealizedPnlOfTrades ==
    [][ /\ (p_last'.op = "sell" /\ p_last'.outcome = "ok") =>
              LET row == trades'[Len(trades')]
                  avg == positions[p_last'.asset_id].avg_cost_basis_usd
                  pnl == row.realized_pnl_usd
              IN  /\ Len(trades') = Len(trades) + 1
                  /\ row.side = SIDE_SELL
                  /\ pnl.den > 0
                  /\ pnl.num * avg.den =
                         pnl.den * ( row.quantity * row.price_usd * avg.den
                                     - row.quantity * avg.num
                                     - row.fees_usd * avg.den )
        /\ \A k \in 1..Len(trades') :
              /\ trades'[k].side \in {SIDE_BUY, SIDE_SELL}
              /\ (trades'[k].side = SIDE_BUY) =
                     (trades'[k].realized_pnl_usd = NullRat)
    ]_vars

\* C22 witness: 1 of a position at 7/3 was sold at 3 with fees of 1; the
\* SELL row carries 3 - 7/3 - 1 = -1/3, the BUY rows NULL.
C22_Witness ==
    /\ Len(trades) = 3
    /\ trades[1].side = SIDE_BUY /\ trades[1].realized_pnl_usd = NullRat
    /\ trades[2].side = SIDE_BUY /\ trades[2].realized_pnl_usd = NullRat
    /\ trades[3].side = SIDE_SELL
    /\ trades[3].quantity = 1 /\ trades[3].price_usd = 3
    /\ trades[3].fees_usd = 1
    /\ trades[3].realized_pnl_usd = [num |-> 0 - 1, den |-> 3]

\* C23: no stored position has a quantity <= 0; a successful sell of all
\* that is held deletes the row, so get_position answers None; a successful
\* buy of an instrument without a row creates one with the bought quantity
\* at the buy's price, whatever was held and closed before.
C23_ClosedPositionIsDeleted ==
    [][ /\ \A a \in DOMAIN positions' : positions'[a].quantity > 0
        /\ ( /\ p_last'.op = "sell"
             /\ p_last'.outcome = "ok"
             /\ p_last'.quantity = positions[p_last'.asset_id].quantity )
           => /\ ~HasPosition(positions', p_last'.asset_id)
              /\ get_position(positions', p_last'.asset_id) = NoPosition
        /\ ( /\ p_last'.op = "buy"
             /\ p_last'.outcome = "ok"
             /\ ~HasPosition(positions, p_last'.asset_id) )
           => get_position(positions', p_last'.asset_id) =
                  [ quantity |-> p_last'.quantity,
                    avg_cost_basis_usd |->
                        [num |-> p_last'.price_usd, den |-> 1] ]
    ]_vars

\* C23 witness: bitcoin was bought at 1, sold out, and bought again at 3;
\* the position is the last buy's alone.
C23_Witness ==
    /\ Len(trades) = 3
    /\ \A k \in 1..3 : trades[k].asset_id = "bitcoin"
    /\ trades[1].side = SIDE_BUY /\ trades[1].price_usd = 1
    /\ trades[2].side = SIDE_SELL /\ trades[2].quantity = trades[1].quantity
    /\ trades[3].side = SIDE_BUY /\ trades[3].price_usd = 3
    /\ get_position(positions, "bitcoin") =
           [ quantity |-> trades[3].quantity,
             avg_cost_basis_usd |-> [num |-> 3, den |-> 1] ]

\* The state between: bitcoin was sold out and has no row.
C23_WitnessClosed ==
    /\ p_last.op = "sell"
    /\ p_last.outcome = "ok"
    /\ Len(trades) = 2
    /\ get_position(positions, p_last.asset_id) = NoPosition

\* C24: every successful record_buy_trade or record_sell_trade adds one row
\* to the trades table, with a trade id no row carried; every other call
\* adds none; the rows the table held are never changed or removed.
C24_LedgerAppendOnly ==
    [][ /\ Len(trades') >= Len(trades)
        /\ SubSeq(trades', 1, Len(trades)) = trades
        /\ IF p_last'.outcome = "ok"
           THEN /\ Len(trades') = Len(trades) + 1
                /\ ~\E k \in 1..Len(trades) :
                       trades[k].trade_id = trades'[Len(trades')].trade_id
           ELSE trades' = trades
    ]_vars

\* C24 witness: two trades with two ids are recorded, and a call whose id
\* was drawn a second time has failed at the INSERT.
C24_Witness ==
    /\ Len(trades) = 2
    /\ trades[1].trade_id > trades[2].trade_id
    /\ p_last.outcome = "constraint_error"

\* C25: a record_buy_trade or record_sell_trade that a store error leaves
\* inside its transaction, also after the trade row was inserted, changes
\* neither table; a call changes the trades table exactly when it changes
\* the positions table.
C25_TradeAndPositionAtomic ==
    [][ /\ p_last'.outcome \in {"store_error", "position_error",
                                "constraint_error"}
           => (trades' = trades /\ positions' = positions)
        /\ (trades' # trades) = (positions' # positions)
        /\ (trades' # trades) = (p_last'.outcome = "ok")
    ]_vars

\* C25 witness: the statement on positions of a sell failed after the SELL
\* row was inserted; the ledger holds the buy alone and the position what
\* was bought.
C25_Witness ==
    /\ p_last.op = "sell"
    /\ p_last.outcome = "position_error"
    /\ Len(trades) = 1
    /\ trades[1].side = SIDE_BUY
    /\ HasPosition(positions, p_last.asset_id)
    /\ positions[p_last.asset_id].quantity = trades[1].quantity

\* The same for a buy that would have opened a position.
C25_WitnessBuy ==
    /\ p_last.op = "buy"
    /\ p_last.outcome = "position_error"
    /\ trades = << >>
    /\ positions = << >>

\* C26: a call of a read view (get_open_positions, get_position,
\* get_trade_history, get_realized_pnl_summary, get_portfolio_summary)
\* leaves the positions table and the trades table as they were.
C26_ReadViewsChangeNothing ==
    [][ p_last'.op \in ReadViews =>
            (positions' = positions /\ trades' = trades) ]_vars

\* C26 witness: get_position was asked for an instrument that has no row,
\* while another is held and two trades are recorded.
C26_Witness ==
    /\ p_last.op = "get_position"
    /\ ~HasPosition(positions, p_last.asset_id)
    /\ positions # << >>
    /\ Len(trades) = 2

(***************************************************************************)
(* The fetch cycle called on a store that other calls have written.        *)
(***************************************************************************)

\* The current_ts a caller may hand to _fetch_asset_market_chart at
\* wall-clock time t: the clock reading it took at or before t.
CallTimes(t) == { ts \in StartTime..t : (ts - StartTime) % TickSeconds = 0 }

\* A direct call of initialize_asset_ingestion_state(asset_id), for an
\* instrument with or without a progress row.
InitializeProgress ==
    /\ pc = "idle"
    /\ \E asset_id \in Assets :
          asset_ingestion_state' =
              initialize_asset_ingestion_state(asset_ingestion_state, asset_id)
    /\ UNCHANGED <<remote, portfolio_vars, client, cursor, sellers,
                 ingestion_state_ids>>
    /\ h_last' = [NoFetch EXCEPT !.outcome = "initialize"]
    /\ UNCHANGED <<ingestion_state, asset_metadata, market_data, now,
                   run_vars, h_pre, h_in_window, h_writes>>

\* One call of _fetch_asset_market_chart(asset_id, current_ts), as a run
\* makes it whose queue and current_ts were computed before another run
\* wrote the instrument's progress.
FetchCycle(responses, faults) ==
    /\ pc = "idle"
    /\ \E asset_id \in Assets, cur_ts \in CallTimes(now), resp \in responses :
       \E fault \in StoreFaults(resp.data_points) \cap faults :
          LET st == [ market_data |-> market_data,
                      asset_ingestion_state |-> asset_ingestion_state ]
          IN  \E r \in { fetch_asset_market_chart(st, asset_id, cur_ts,
                                                   now, resp, fault) } :
              /\ market_data' = r.store.market_data
              /\ asset_ingestion_state' = r.store.asset_ingestion_state
              /\ h_last' =
                     [ NoFetch EXCEPT
                         !.outcome = r.outcome,
                         !.in_window = r.in_window,
                         !.request =
                             market_chart_request(asset_ingestion_state,
                                                  asset_id, cur_ts, now),
                         !.window =
                             market_chart_window(asset_ingestion_state,
                                                 asset_id, cur_ts, now),
                         !.success = r.success,
                         !.asset_id = asset_id ]
    /\ UNCHANGED <<remote, portfolio_vars, client, cursor, sellers,
                 ingestion_state_ids>>
    /\ UNCHANGED <<ingestion_state, asset_metadata, now, run_vars,
                   h_pre, h_in_window, h_writes>>

NextCycle ==
    \/ InitializeProgress
    \/ FetchCycle(TracedResponses, AllFaults)
    \/ Tick

SpecCycle == Init /\ [][NextCycle]_vars

\* This step is a call of the fetch cycle whose window was degenerate.
DegenerateStep ==
    /\ now' = now
    /\ h_last'.window # NoRequest
    /\ h_last'.window.from >= h_last'.window.to

\* C28: a fetch cycle whose computed window is degenerate (from >= to)
\* issues no request, returns success, and leaves the progress rows and the
\* market data as they were.
C28_DegenerateWindowSkips ==
    [][ DegenerateStep =>
          /\ h_last'.request = NoRequest
          /\ h_last'.success = "True"
          /\ asset_ingestion_state' = asset_ingestion_state
          /\ market_data' = market_data ]_vars

\* C28 witness: the cycle was called for an instrument whose
\* last_collected_unix_ts is not before the caller's current_ts, with
\* market data stored, and skipped.
C28_Witness ==
    /\ h_last.outcome = "skipped"
    /\ h_last.window.from >= h_last.window.to
    /\ h_last.request = NoRequest
    /\ market_data # EmptyBag

(***************************************************************************)
(* The request window, checked under SpecTraced.                           *)
(***************************************************************************)

\* The backfill horizon in the secrets of an orchestrator constructed with
\* no secrets argument at StartTime (self.secrets = _default_secrets()).
ConfiguredBackfillStart == default_secrets(StartTime).initial_query_from

\* This step is a fetch cycle that issued a market_chart request.
RequestStep == FetchStep /\ h_last'.request # NoRequest

\* C27: every market_chart request has `to` equal to the run's current
\* time and `from` equal to the instrument's last_collected_unix_ts when it
\* has one, and otherwise to the backfill horizon of the orchestrator's
\* configuration.
C27_RequestWindowFollowsConfiguration ==
    [][ RequestStep =>
          /\ h_last'.request.to = current_ts
          /\ h_last'.request.from =
                 IF h_last'.prior_last # NULL
                 THEN h_last'.prior_last
                 ELSE ConfiguredBackfillStart ]_vars

\* What the code does instead: the horizon is taken from the wall clock at
\* the time of the fetch.
C27_RequestWindowFollowsClock ==
    [][ RequestStep =>
          /\ h_last'.request.to = current_ts
          /\ h_last'.request.from =
                 IF h_last'.prior_last # NULL
                 THEN h_last'.prior_last
                 ELSE now - BackfillSeconds ]_vars

\* A request for an instrument that was never collected, issued after the
\* clock has moved on from StartTime.
C27_Witness ==
    /\ h_last.request # NoRequest
    /\ h_last.prior_last = NULL
    /\ h_last.request.from # ConfiguredBackfillStart

\* A request for an instrument with prior progress.
C27_WitnessIncremental ==
    /\ h_last.request # NoRequest
    /\ h_last.prior_last # NULL
    /\ h_last.request.from = h_last.prior_last

(***************************************************************************)
(* The retry loop of make_request.                                         *)
(***************************************************************************)

\* Calls of make_request, one after the other, with every max_retries from
\* 0 to MaxRetries.  A call that has begun goes on: requests.get comes back
\* and time.sleep ends.
NextClient ==
    \/ MakeRequestBegin(0..MaxRetries)
    \/ MakeRequestGet(GetOutcomes)
    \/ MakeRequestExhausted

SpecClient ==
    /\ Init
    /\ [][NextClient]_vars
    /\ WF_vars(MakeRequestGet(GetOutcomes))
    /\ WF_vars(MakeRequestExhausted)

\* This step issues a request.
GetStep == client'.requests = client.requests + 1

\* A call never issues more than max_retries requests, and it ends.
RequestsBounded ==
    /\ [](client.requests <= client.max_retries)
    /\ (client.pc = "loop") ~> (client.pc \in {"returned", "raised"})

\* A request after the first follows a 429, and an answer other than 429
\* is returned by the step that received it.
RetryOnlyAfterRateLimit ==
    [][ GetStep =>
          /\ client.requests > 0 => client.response = 429
          /\ (client'.error = "none" /\ client'.response # 429) =>
                 client'.pc = "returned" ]_vars

\* The step that leaves the loop after max_retries answers of 429.
ExhaustedStep ==
    /\ client.pc = "loop"
    /\ client.requests = client.max_retries
    /\ client'.pc # "loop"
    /\ client'.requests = client.requests

\* C29: make_request ends after at most max_retries requests; it issues a
\* further request only after a 429, returns any other response at once,
\* and after max_retries consecutive 429 answers returns the last response
\* and does not raise.
C29_BoundedRetryReturnsResponse ==
    /\ RequestsBounded
    /\ RetryOnlyAfterRateLimit
    /\ [][ ExhaustedStep =>
              /\ client'.pc = "returned"
              /\ client'.response = client.response ]_vars

\* The same for the calls with max_retries >= 1.
C29_BoundedRetryWithPositiveMaxRetries ==
    /\ RequestsBounded
    /\ RetryOnlyAfterRateLimit
    /\ [][ (ExhaustedStep /\ client.max_retries >= 1) =>
              /\ client'.pc = "returned"
              /\ client'.response = 429 ]_vars

\* make_request(endpoint, max_retries=0) has raised UnboundLocalError.
C29_Witness ==
    /\ client.pc = "raised"
    /\ client.error = "UnboundLocalError"
    /\ client.max_retries = 0
    /\ client.requests = 0

\* The default call, rate limited five times, has returned the last 429.
C29_WitnessRateLimited ==
    /\ client.pc = "returned"
    /\ client.max_retries = DEFAULT_MAX_RETRIES
    /\ client.requests = DEFAULT_MAX_RETRIES
    /\ client.response = 429

(***************************************************************************)
(* The order of the work queue, checked under SpecTraced.                  *)
(***************************************************************************)

\* The stored rank of the instrument at position k of the queue.
QueueRank(k) == asset_metadata[assets_to_query[k]].market_cap_rank

\* The queue lists no instrument twice, ranks ascend along it, and no
\* ranked instrument comes after one without a rank.
QueueOrdered ==
    \A m, n \in 1..Len(assets_to_query) :
        m < n =>
            /\ assets_to_query[m] # assets_to_query[n]
            /\ QueueRank(m) = NULL => QueueRank(n) = NULL
            /\ (QueueRank(m) # NULL /\ QueueRank(n) # NULL) =>
                   QueueRank(m) <= QueueRank(n)

\* The instrument has the rows and the progress it had before the step.
AssetUntouched(asset_id) ==
    /\ AssetRows(market_data', asset_id) = AssetRows(market_data, asset_id)
    /\ HasProgress(asset_ingestion_state, asset_id) =>
           asset_ingestion_state'[asset_id] = asset_ingestion_state[asset_id]

\* C30: the work queue is ordered by market-cap rank ascending with the
\* instruments without a rank last and holds every instrument at most
\* once, and the loop works through it in that order: the k-th fetch cycle
\* is the one of the k-th instrument of the queue, and the loop ends after
\* the last.
C30_QueueOrderedAndProcessedInOrder ==
    /\ [](pc = "chart" => (QueueOrdered /\ idx \in 1..Len(assets_to_query)))
    /\ [][ FetchStep =>
              /\ assets_to_query' = assets_to_query
              /\ processed' + errors' = idx
              /\ \A a \in Assets \ {assets_to_query[idx]} : AssetUntouched(a)
              /\ (pc' = "finish") <=> (idx = Len(assets_to_query)) ]_vars

\* C30 witness: a queue of a ranked instrument followed by one without a
\* rank has been worked through, and both have market data.
C30_Witness ==
    /\ pc = "finish"
    /\ Len(assets_to_query) = 2
    /\ QueueRank(1) # NULL
    /\ QueueRank(2) = NULL
    /\ processed = 2
    /\ \A k \in 1..2 : AssetRows(market_data, assets_to_query[k]) # {}

(***************************************************************************)
(* The ingestion_state table under re-initialization, direct calls of      *)
(* update_ingestion_state, and runs.                                       *)
(***************************************************************************)

\* The arguments of a direct call of update_ingestion_state.
EndpointArgs == {NoEndpoint, "coinmarkets", "marketchart"}
StatusArgs == {NoEndpoint} \cup RunStatuses

\* A new process opens the existing database: DuckDBStore.__init__ runs
\* _initialize_schema again, and no call of run() has been made yet.
InitializeSchema ==
    /\ pc = "idle"
    /\ result # "none"
    /\ LET t == initialize_schema(ingestion_state_ids, ingestion_state)
       IN  /\ ingestion_state_ids' = t.ids
           /\ ingestion_state' = t.row
    /\ result' = "none"
    /\ UNCHANGED <<remote, portfolio_vars, client, cursor, sellers>>
    /\ UNCHANGED <<asset_metadata, asset_ingestion_state, market_data, now,
                   pc, assets, i, existing_assets, assets_to_query, idx,
                   current_ts, processed, errors, mode, hist_vars>>

\* A direct call of update_ingestion_state between two runs.
UpdateIngestionState(endpoints, statuses) ==
    /\ pc = "idle"
    /\ \E current_endpoint \in endpoints, run_status \in statuses :
          ingestion_state' =
              IF 1 \in ingestion_state_ids
              THEN update_ingestion_state(ingestion_state, current_endpoint,
                                          run_status)
              ELSE ingestion_state
    /\ UNCHANGED <<remote, portfolio_vars, client, cursor, sellers,
                 ingestion_state_ids>>
    /\ UNCHANGED <<asset_metadata, asset_ingestion_state, market_data, now,
                   run_vars, hist_vars>>

NextRunState ==
    \/ InitializeSchema
    \/ UpdateIngestionState(EndpointArgs, StatusArgs)
    \/ RunBegin(FALSE)
    \/ FetchCoinMarketsRaises
    \/ FetchCoinMarketsReturns(FALSE, ListingAnswers)
    \/ UpsertAssetMetadata
    \/ InitializeIngestionState
    \/ ListingStoreError
    \/ ComputeQueue
    \/ FetchAsset(TracedResponses, AllFaults, FALSE)
    \/ RunFinish
    \/ Crash

SpecRunState == Init /\ [][NextRunState]_vars

NextProgress ==
    \/ InitializeProgress
    \/ RunBegin(FALSE)
    \/ FetchCoinMarketsRaises
    \/ FetchCoinMarketsReturns(FALSE, ListingAnswers)
    \/ UpsertAssetMetadata
    \/ InitializeIngestionState
    \/ ListingStoreError
    \/ ComputeQueue
    \/ FetchAsset(TracedResponses, AllFaults, FALSE)
    \/ RunFinish
    \/ Crash
    \/ Tick

SpecProgress == Init /\ [][NextProgress]_vars

\* This step belongs to the listing step of a run, or is a call made
\* between two runs.
ListingOrInitializeStep ==
    pc \in {"idle", "fetch_markets", "upsert", "init_state"}

\* C32: the listing step of a run and a call of
\* initialize_asset_ingestion_state leave every existing progress row as it
\* was (last_collected_unix_ts, first_collected_unix_ts,
\* is_backfill_complete), and the instrument keeps its one row.
C32_ExistingProgressKept ==
    [][ ListingOrInitializeStep =>
          \A a \in DOMAIN asset_ingestion_state :
              /\ a \in DOMAIN asset_ingestion_state'
              /\ asset_ingestion_state'[a] = asset_ingestion_state[a] ]_vars

\* C32 witness: initialize_asset_ingestion_state has just been called while
\* every instrument has a progress row with collected data.
C32_Witness ==
    /\ h_last.outcome = "initialize"
    /\ DOMAIN asset_ingestion_state = Assets
    /\ \A a \in Assets :
           asset_ingestion_state[a].last_collected_unix_ts # NULL

\* C32 witness: an incremental run has finished its listing step over an
\* instrument with collected data.
C32_WitnessIncremental ==
    /\ pc = "queue"
    /\ mode = "incremental"
    /\ \E k \in 1..Len(assets) :
           /\ HasProgress(asset_ingestion_state, assets[k].asset_id)
           /\ asset_ingestion_state[assets[k].asset_id].last_collected_unix_ts # NULL

(***************************************************************************)
(* Recovery of an interrupted listing step, checked under SpecTraced.      *)
(***************************************************************************)

\* The call of run() in progress follows one that did not return (the run
\* status it found was Running or Error) and found instruments in
\* asset_metadata that have no progress row.
AfterInterruptedListing ==
    /\ h_last.start_status \in {RUN_STATUS_RUNNING, RUN_STATUS_ERROR}
    /\ h_last.start_orphans

\* C33: when the run that follows an interrupted listing step has finished
\* its own listing step, every instrument of asset_metadata has a progress
\* row.
C33_InterruptedListingRecovered ==
    (pc = "queue" /\ AfterInterruptedListing) =>
        \A a \in DOMAIN asset_metadata :
            HasProgress(asset_ingestion_state, a)

\* The run after an interrupted listing step has listed the instrument
\* again, and it still has no progress row.
C33_Witness ==
    /\ pc = "queue"
    /\ AfterInterruptedListing
    /\ \E k \in 1..Len(assets) :
           /\ assets[k].asset_id \in DOMAIN asset_metadata
           /\ ~HasProgress(asset_ingestion_state, assets[k].asset_id)

(***************************************************************************)
(* The backfill flag, checked under Spec.                                  *)
(***************************************************************************)

\* This step is a fetch cycle that persisted a batch for an instrument
\* whose is_backfill_complete was false.
BackfillStep ==
    /\ FetchStep
    /\ h_last'.outcome = "persisted"
    /\ ~asset_ingestion_state[assets_to_query[idx]].is_backfill_complete

\* C34: a successful fetch for an instrument whose is_backfill_complete is
\* false sets it to true exactly when the smallest timestamp of the batch
\* is <= the backfill horizon of the orchestrator's configuration + 3600.
C34_BackfillCompleteAtConfiguredHorizon ==
    [][ BackfillStep =>
          (asset_ingestion_state'[assets_to_query[idx]].is_backfill_complete
              <=> h_last'.min_ts <= ConfiguredBackfillStart + 3600) ]_vars

\* What the code does instead: the horizon is the wall clock at the time of
\* the fetch minus DEFAULT_BACKFILL_DAYS.
C34_BackfillCompleteAtClockHorizon ==
    [][ BackfillStep =>
          (asset_ingestion_state'[assets_to_query[idx]].is_backfill_complete
              <=> h_last'.min_ts <= now - BackfillSeconds + 3600) ]_vars

\* A batch that starts later than the configured horizon + 3600 has set
\* is_backfill_complete.
C34_Witness ==
    /\ pc \in {"chart", "finish"}
    /\ idx > 1
    /\ h_last.outcome = "persisted"
    /\ h_last.min_ts > ConfiguredBackfillStart + 3600
    /\ asset_ingestion_state[LastAsset].is_backfill_complete

(***************************************************************************)
(* A failed fetch, checked under SpecTraced.                               *)
(***************************************************************************)

\* The values the wall clock may have from t on.
LaterTimes(t) ==
    { ts \in { StartTime + k * TickSeconds : k \in 0..MaxTicks } : ts >= t }

\* This step is a fetch cycle that issued its request and failed: the
\* answer was not a 200, or an exception left the cycle.
FailedFetchStep ==
    /\ FetchStep
    /\ h_last'.outcome \in {"status", "exception", "store_error"}

\* The failed cycle left the instrument's progress row and market data as
\* they were.
FailedFetchKeepsRows ==
    [][ FailedFetchStep => AssetUntouched(assets_to_query[idx]) ]_vars

\* The `from` of the request a cycle makes for the instrument at clock
\* value t, after this step.
NextFrom(asset_id, t) ==
    market_chart_request(asset_ingestion_state', asset_id, t, t).from

\* C35: a timeseries fetch that fails leaves the instrument's progress row
\* and market data as before the fetch, and a later run requests the same
\* `from` for it.
C35_FailedFetchResumesAtSameFrom ==
    [][ FailedFetchStep =>
          /\ AssetUntouched(assets_to_query[idx])
          /\ \A t \in LaterTimes(now) :
                 NextFrom(assets_to_query[idx], t) = h_last'.request.from ]_vars

\* The same, with the `from` compared for the instruments that have been
\* collected before.
C35_FailedFetchResumesAfterProgress ==
    [][ (FailedFetchStep /\ h_last'.prior_last # NULL) =>
          /\ AssetUntouched(assets_to_query[idx])
          /\ \A t \in LaterTimes(now) :
                 NextFrom(assets_to_query[idx], t) = h_last'.request.from ]_vars

\* A fetch for a never-collected instrument has failed before the clock
\* reached its last value.
C35_Witness ==
    /\ pc \in {"chart", "finish"}
    /\ idx > 1
    /\ h_last.outcome \in {"status", "exception"}
    /\ h_last.prior_last = NULL
    /\ now < EndTime

\* A fetch for an instrument with collected data has failed.
C35_WitnessAfterProgress ==
    /\ pc \in {"chart", "finish"}
    /\ idx > 1
    /\ h_last.outcome \in {"status", "exception", "store_error"}
    /\ h_last.prior_last # NULL
    /\ AssetRows(market_data, LastAsset) # {}

(***************************************************************************)
(* The rows a fetch cycle touches, checked under SpecCycle.                *)
(***************************************************************************)

\* This step is a call of the fetch cycle.
CycleStep == now' = now /\ h_last'.asset_id # "none"

\* C36: a fetch cycle for one instrument leaves the progress row and the
\* market data of every other instrument as they were, whether it
\* persists a batch, fails or is skipped.
C36_CycleTouchesOneInstrument ==
    [][ CycleStep =>
          /\ DOMAIN asset_ingestion_state' = DOMAIN asset_ingestion_state
          /\ \A a \in Assets \ {h_last'.asset_id} : AssetUntouched(a) ]_vars

\* The other instrument of the model.
OtherAsset(asset_id) == CHOOSE a \in Assets : a # asset_id

\* C36 witness: a cycle has persisted a batch while the other instrument
\* has a progress row without collected data.
C36_Witness ==
    /\ h_last.outcome = "persisted"
    /\ HasProgress(asset_ingestion_state, OtherAsset(h_last.asset_id))
    /\ asset_ingestion_state[OtherAsset(h_last.asset_id)]
           .last_collected_unix_ts = NULL

\* C36 witness: a cycle was skipped while the other instrument has
\* collected data.
C36_WitnessSkipped ==
    /\ h_last.outcome = "skipped"
    /\ AssetRows(market_data, OtherAsset(h_last.asset_id)) # {}

\* C36 witness: a cycle failed while the other instrument has collected
\* data.
C36_WitnessFailed ==
    /\ h_last.outcome \in {"status", "exception", "store_error"}
    /\ AssetRows(market_data, OtherAsset(h_last.asset_id)) # {}

(***************************************************************************)
(* A fetch that returns no data points, checked under SpecTraced.          *)
(***************************************************************************)

\* This step is a fetch cycle whose request was answered 200 with zero
\* data points.
EmptyFetchStep == FetchStep /\ h_last'.outcome = "empty"

\* C38: a fetch answered with zero data points is counted as a success,
\* writes no market data row and leaves the instrument's progress row
\* unchanged; an instrument whose last_collected_unix_ts is null is in the
\* work queue of every later run.
C38_EmptyFetchChangesNothing ==
    [][ EmptyFetchStep =>
          /\ processed' = processed + 1
          /\ errors' = errors
          /\ market_data' = market_data
          /\ asset_ingestion_state' = asset_ingestion_state
          /\ h_last'.prior_last = NULL =>
                 \A t \in LaterTimes(now) :
                     assets_to_query[idx] \in
                         NeedsQuery(asset_metadata', asset_ingestion_state',
                                    t, UPDATE_THRESHOLD_SECONDS) ]_vars

\* C38 witness: the fetch of a never-collected instrument was answered with
\* zero data points.
C38_Witness ==
    /\ pc \in {"chart", "finish"}
    /\ idx > 1
    /\ h_last.outcome = "empty"
    /\ h_last.prior_last = NULL
    /\ processed > 0
    /\ asset_ingestion_state[LastAsset].last_collected_unix_ts = NULL

\* C38 witness: the same for an instrument with collected data.
C38_WitnessAfterProgress ==
    /\ pc \in {"chart", "finish"}
    /\ idx > 1
    /\ h_last.outcome = "empty"
    /\ h_last.prior_last # NULL
    /\ AssetRows(market_data, LastAsset) # {}

(***************************************************************************)
(* The query cursor driven by update_state.                                *)
(***************************************************************************)
NextCursor == CursorCall(CursorListings, CursorBatches)

SpecCursor == Init /\ [][NextCursor]_vars

\* The queue of a state dict, None read as empty.
CursorQueue(state) ==
    IF state.has_queue THEN state.to_query_asset_id ELSE << >>

\* This step is a call of update_state.
UpdateStateStep == cursor'.pc = "ready" /\ cursor' # cursor

\* The steps of update_state, one response at a time: a listing sets
\* market-chart mode and the queue to the listed ids in order; a market_chart
\* response removes the answered instrument and keeps the others in order;
\* None changes nothing.
C37_UpdateStateSteps ==
    [][ UpdateStateStep =>
          LET parsed_response == cursor'.parsed_response
              queue == CursorQueue(cursor.state)
              queue_after == CursorQueue(cursor'.state)
          IN  /\ parsed_response.type = API_KEY_COIN_MARKETS =>
                    /\ cursor'.state.api = API_KEY_MARKET_CHART
                    /\ Len(queue_after) = Len(parsed_response.assets)
                    /\ \A k \in 1..Len(queue_after) :
                           queue_after[k] = parsed_response.assets[k].asset_id
              /\ parsed_response.type = API_KEY_MARKET_CHART =>
                    /\ queue_after =
                           SelectSeq(queue,
                                     LAMBDA a : a # parsed_response.asset_id)
                    /\ Len(queue_after) = Len(queue) - 1
                    /\ (cursor'.state.api = NoEndpoint) <=> (queue_after = << >>)
              /\ parsed_response.type = "None" =>
                    cursor'.state = cursor.state ]_vars

\* A queue of n instruments drains after n market_chart responses.
C37_QueueDrains ==
    /\ Len(CursorQueue(cursor.state)) = cursor.listed - cursor.answered
    /\ cursor.answered = cursor.listed => CursorQueue(cursor.state) = << >>

\* The cursor is in listing mode exactly when its queue is empty.
C37_ListingModeIffQueueEmpty ==
    (cursor.state.api = NoEndpoint) <=> (CursorQueue(cursor.state) = << >>)

\* C37: driving the cursor with update_state, a listing response switches to
\* market-chart mode with the queue set to the listed ids in order; each
\* market_chart response removes exactly the answered instrument and leaves
\* the others in order; the cursor is back in listing mode (api = None)
\* exactly when the queue is empty, so a queue of n instruments drains after
\* n market_chart responses; a None response leaves the cursor unchanged.
C37_CursorProtocol ==
    /\ C37_UpdateStateSteps
    /\ [](C37_QueueDrains)
    /\ [](C37_ListingModeIffQueueEmpty)

\* The same with listing mode required only of a queue that market_chart
\* responses have emptied.
C37_CursorProtocolAfterResponses ==
    /\ C37_UpdateStateSteps
    /\ [](C37_QueueDrains)
    /\ [](cursor.listed > 0 => C37_ListingModeIffQueueEmpty)

\* A listing of three instruments was drained by three market_chart
\* responses and the cursor is back in listing mode.
C37_WitnessDrained ==
    /\ cursor.listed = 3
    /\ cursor.answered = 3
    /\ cursor.state.api = NoEndpoint
    /\ cursor.state.to_query_asset_id = << >>
    /\ cursor.parsed_response.type = API_KEY_MARKET_CHART

\* An empty listing left the cursor in market-chart mode with an empty
\* queue, and the next build_api raised IndexError.
C37_WitnessEmptyListing ==
    /\ cursor.pc = "raised"
    /\ cursor.error = "IndexError"
    /\ cursor.state.api = API_KEY_MARKET_CHART
    /\ cursor.state.to_query_asset_id = << >>

(***************************************************************************)
(* The held quantity against the ledger, one writer (SpecPortfolio).       *)
(***************************************************************************)

\* SUM(quantity) of the rows of trades with this asset_id and side.
RECURSIVE TradedQuantity(_, _, _)
TradedQuantity(rows, asset_id, side) ==
    IF rows = << >> THEN 0
    ELSE (IF Head(rows).asset_id = asset_id /\ Head(rows).side = side
          THEN Head(rows).quantity ELSE 0)
         + TradedQuantity(Tail(rows), asset_id, side)

\* The position quantity, 0 when there is no position row.
HeldQuantity(pos, asset_id) == get_position(pos, asset_id).quantity

\* C39: after any sequence of ledger operations of one writer, the held
\* quantity of every instrument (0 without a position row) is the sum of
\* the quantities of its BUY trades minus that of its SELL trades, and is
\* never negative.
C39_HeldQuantityIsNetOfTrades ==
    \A asset_id \in Assets :
        /\ HeldQuantity(positions, asset_id) =
               TradedQuantity(trades, asset_id, SIDE_BUY)
                   - TradedQuantity(trades, asset_id, SIDE_SELL)
        /\ HeldQuantity(positions, asset_id) >= 0

\* C39 witness: an instrument was bought twice and partly sold, and a
\* position is left.
C39_Witness ==
    /\ p_last.op = "sell"
    /\ p_last.outcome = "ok"
    /\ TradedQuantity(trades, p_last.asset_id, SIDE_BUY) = 3
    /\ TradedQuantity(trades, p_last.asset_id, SIDE_SELL) = 1
    /\ HeldQuantity(positions, p_last.asset_id) = 2

\* C39 witness: everything bought was sold and the position row is gone.
C39_WitnessClosed ==
    /\ p_last.op = "sell"
    /\ p_last.outcome = "ok"
    /\ TradedQuantity(trades, p_last.asset_id, SIDE_SELL) > 0
    /\ ~HasPosition(positions, p_last.asset_id)

\* C39 witness: a call that failed inside its transaction left the ledger
\* of a held instrument as it was.
C39_WitnessRolledBack ==
    /\ p_last.outcome \in {"store_error", "position_error"}
    /\ HasPosition(positions, p_last.asset_id)

(***************************************************************************)
(* record_sell_trade of two PortfolioStore instances, step by step.        *)
(***************************************************************************)

\* _update_position_on_sell, `if existing is None: raise ValueError`: the
\* row is read again inside the transaction.
sell_finds_no_position(pos, asset_id, quantity) ==
    ~HasPosition(pos, asset_id)

\* The transaction of record_sell_trade on the tables st, by an instance
\* that read `position` before it: INSERT the SELL row with the P&L
\* computed from that row, then _update_position_on_sell on the tables as
\* they are now.
sell_transaction(st, asset_id, quantity, price_usd, fees_usd, trade_id, position, fault) ==
    LET row == TradeRow(trade_id, asset_id, SIDE_SELL, quantity,
                        price_usd, fees_usd,
                        realized_pnl(quantity, price_usd,
                                     position.avg_cost_basis_usd, fees_usd))
        duplicate == trade_id_taken(st.trades, trade_id)
        inserted == [st EXCEPT !.trades = Append(@, row)]
        missing == sell_finds_no_position(st.positions, asset_id, quantity)
        attempted ==
            CASE fault = "insert" \/ duplicate -> st
              [] fault = "position" \/ missing -> inserted
              [] OTHER ->
                   [inserted EXCEPT !.positions =
                       update_position_on_sell(@, asset_id, quantity)]
    IN  [ store |-> portfolio_transaction(st, attempted,
                                          fault # "none" \/ duplicate
                                              \/ missing),
          outcome |-> IF duplicate THEN "constraint_error"
                      ELSE IF fault = "insert" THEN "store_error"
                      ELSE IF fault = "position" THEN "position_error"
                      ELSE IF missing THEN "no_position_found"
                      ELSE "ok" ]

\* record_sell_trade of one instance up to its transaction: the input
\* validation, the read of the position and the sufficient-quantity test.
\* A ValueError ends the call; otherwise the instance keeps its arguments
\* and the position row it read.
SellCheck(inst, asset_ids) ==
    /\ sellers[inst].pc = "idle"
    /\ Len(trades) < MaxTrades
    /\ \E asset_id \in asset_ids, args \in TradeArgs, fees_usd \in TradeFees :
          LET valid == validate_trade(args[1], args[2])
              held == check_position(positions, asset_id, args[1])
              outcome == IF valid # "ok" THEN valid ELSE held
          IN  /\ sellers' =
                     [ sellers EXCEPT ![inst] =
                         IF outcome = "ok"
                         THEN [ pc |-> "checked", asset_id |-> asset_id,
                                quantity |-> args[1], price_usd |-> args[2],
                                fees_usd |-> fees_usd,
                                position |-> positions[asset_id] ]
                         ELSE NoSale ]
              /\ p_last' = [ op |-> "sell", asset_id |-> asset_id,
                             quantity |-> args[1], price_usd |-> args[2],
                             outcome |-> IF outcome = "ok" THEN "checked"
                                         ELSE outcome ]
    /\ UNCHANGED <<positions, trades>>
    /\ UNCHANGED <<ingestion_vars, client, cursor>>

\* The rest of record_sell_trade of that instance: `with
\* self.transaction()`, on the tables as the other instance left them.
SellTransaction(inst, faults) ==
    /\ sellers[inst].pc = "checked"
    /\ Len(trades) < MaxTrades
    /\ \E fault \in faults :
          LET sale == sellers[inst]
              r == sell_transaction(
                       [positions |-> positions, trades |-> trades],
                       sale.asset_id, sale.quantity, sale.price_usd,
                       sale.fees_usd, NewTradeId, sale.position, fault)
          IN  /\ positions' = r.store.positions
              /\ trades' = r.store.trades
              /\ p_last' = [ op |-> "sell", asset_id |-> sale.asset_id,
                             quantity |-> sale.quantity,
                             price_usd |-> sale.price_usd,
                             outcome |-> r.outcome ]
    /\ sellers' = [sellers EXCEPT ![inst] = NoSale]
    /\ UNCHANGED <<ingestion_vars, client, cursor>>

NextSellers ==
    \/ RecordBuyTrade({"bitcoin"}, {NewTradeId}, {"none"})
    \/ \E inst \in Instances : SellCheck(inst, {"bitcoin"})
    \/ \E inst \in Instances : SellTransaction(inst, TradeFaults)

SpecSellers == InitPortfolio /\ [][NextSellers]_vars

\* C40: with two PortfolioStore instances on one store, under every
\* interleaving of their record_sell_trade calls on one instrument the sum
\* of the quantities of the recorded SELL trades never exceeds the sum of
\* the quantities of the recorded BUY trades.
C40_SellsNeverExceedBuys ==
    \A asset_id \in Assets :
        TradedQuantity(trades, asset_id, SIDE_SELL)
            <= TradedQuantity(trades, asset_id, SIDE_BUY)

\* The two calls passed the sufficient-quantity test on the same position
\* row, and the second transaction recorded a sale of more than was left.
C40_WitnessOversold ==
    /\ p_last.op = "sell"
    /\ p_last.outcome = "ok"
    /\ TradedQuantity(trades, "bitcoin", SIDE_SELL)
           > TradedQuantity(trades, "bitcoin", SIDE_BUY)
    /\ ~HasPosition(positions, "bitcoin")

\* The second transaction found the position deleted by the first and was
\* rolled back.
C40_WitnessNoPositionFound ==
    /\ p_last.outcome = "no_position_found"
    /\ TradedQuantity(trades, "bitcoin", SIDE_SELL)
           = TradedQuantity(trades, "bitcoin", SIDE_BUY)

=============================================================================
